---- MODULE Spec2Model ----
(***************************************************************************)
(* MarketPl.ai backend: the CSV ingestion pipeline (process_csv), the      *)
(* import registry (create / update / delete of ImportRecords), the price  *)
(* store with its unique (symbol, date) index, the symbol index cache and  *)
(* the startup recovery sweep, as concurrent tasks over one MongoDB.       *)
(*                                                                         *)
(* Every action is one store operation (or one in-process cache write) of  *)
(* a request handler or background task, together with the local           *)
(* computation that follows it up to the next store operation: the threads *)
(* of the worker pool interleave between store operations.                 *)
(***************************************************************************)
EXTENDS Integers, Sequences, FiniteSets, TLC

(***************************************************************************)
(* Bounds and inputs                                                       *)
(***************************************************************************)

\* settings.csv_chunk_size (CSV_CHUNK_SIZE, default 10000): rows per chunk.
csv_chunk_size == 2

\* chunk_count % 10: symbols_count is refreshed every 10th chunk.
SymbolsRefreshEvery == 10

\* DELETE requests issued during a run.
MaxDeleteRequests == 1

\* ObjectIds of the imports that can be created; they are handed out in order.
ImportIds == 1 .. 2

\* SYMBOLS_CACHE_TTL, in seconds.
SYMBOLS_CACHE_TTL == 60

\* The clock advances in steps of half the TTL, this many times.
MaxTicks == 3

TickSeconds == SYMBOLS_CACHE_TTL \div 2

\* The worker threads that serve GET /api/stock-prices/symbols.
Readers == 1 .. 2

\* Bars of the price series of a signal-strategy or Buy & Hold run, at most.
MaxBars == 6

\* A DCA run needs more than a week of bars for a second injection.
MaxDcaBars == MaxBars + 2

\* adj_close values of the bars.
PriceLevels == 1 .. 3

DcaPriceLevels == 1 .. 2

\* request.initial_capital and DCAParams.amount (both gt=0).
Capitals == {12}

Amounts == {6}

\* The prepared price series: one adj_close per calendar day, bar k on day k.
PriceSeries(levels, maxlen) == UNION {[1 .. n -> levels] : n \in 1 .. maxlen}

\* Strategy parameters: the windows are scaled down to the length of the series.
DCAParams == [interval : {"weekly", "monthly", "quarterly"}, amount : Amounts]

MACrossoverParams == [short_window : 1 .. 2, long_window : 2 .. 3]

RSIParams == [rsi_period : {2}, oversold : {30}, overbought : {70}]

\* bb_std is the fraction <<numerator, denominator>>.
BollingerBandsParams == [bb_window : 2 .. 3, bb_std : {<<1, 2>>}]

SignalStrategies == {"ma_crossover", "rsi", "bollinger_bands"}

\* strategy_params that the schema of the strategy refuses: amount = 0 (gt=0),
\* short_window = 0 (ge=5), rsi_period = 1 (ge=2), bb_std = 4.5 (le=4.0).
RefusedParams ==
    [dca |-> [interval |-> "weekly", amount |-> 0],
     ma_crossover |-> [short_window |-> 0, long_window |-> 2],
     rsi |-> [rsi_period |-> 1, oversold |-> 30, overbought |-> 70],
     bollinger_bands |-> [bb_window |-> 2, bb_std |-> <<9, 2>>]]

\* The endpoint a strategy is requested through: POST /api/backtest, one entry of
\* POST /api/backtest/compare, one holding of POST /api/backtest/portfolio.
Paths == {"single", "compare", "portfolio"}

\* The strategy runs that can be requested, over price series of the given levels.
RequestsOver(levels, dca_levels) ==
    [strategy : {"buy_and_hold"}, params : {<< >>}, initial_capital : Capitals,
     prices : PriceSeries(levels, MaxBars), path : Paths]
    \cup [strategy : {"dca"}, params : DCAParams, initial_capital : Capitals,
          prices : PriceSeries(dca_levels, MaxDcaBars), path : Paths]
    \cup [strategy : {"ma_crossover"}, params : MACrossoverParams, initial_capital : Capitals,
          prices : PriceSeries(levels, MaxBars), path : Paths]
    \cup [strategy : {"rsi"}, params : RSIParams, initial_capital : Capitals,
          prices : PriceSeries(levels, MaxBars), path : Paths]
    \cup [strategy : {"bollinger_bands"}, params : BollingerBandsParams,
          initial_capital : Capitals, prices : PriceSeries(levels, MaxBars), path : Paths]
    \cup UNION {[strategy : {st}, params : {RefusedParams[st]}, initial_capital : Capitals,
                 prices : PriceSeries(levels, 2), path : Paths]
                : st \in DOMAIN RefusedParams}

\* The backtests that can be requested.
Requests == RequestsOver(PriceLevels, DcaPriceLevels)

\* A string is a sequence of tokens; the token " " is whitespace.
Str(s) == <<s>>

Padded(s) == <<" ", s, " ">>

EXPECTED_CSV_COLUMNS ==
    << Str("Symbol"), Str("Security Name"), Str("Date"), Str("Open"), Str("High"),
       Str("Low"), Str("Close"), Str("Adj Close"), Str("Volume") >>

\* The same header with whitespace around two of the names.
HeaderPadded ==
    << Padded("Symbol"), Str("Security Name"), Str("Date"), Str("Open"), Str("High"),
       Str("Low"), Str("Close"), Str("Adj Close"), Padded("Volume") >>

\* A header with two columns swapped.
HeaderSwapped ==
    << Str("Symbol"), Str("Security Name"), Str("Open"), Str("Date"), Str("High"),
       Str("Low"), Str("Close"), Str("Adj Close"), Str("Volume") >>

\* Raw cell texts that parse: dates and decimal numbers.
IsoDates == {"2020-01-01", "2020-01-02"}

Decimals == {"10.0", "12.5", "-1.0", "1.0", "2.0"}

\* Raw texts of the "Adj Close" column of an uploaded file; "n/a" is no number.
AdjCloseTexts == {"-1.0", "1.0", "2.0", "n/a"}

\* The float a parsed text stands for.
float64(raw) ==
    CASE raw = "-1.0" -> -1
      [] raw = "1.0" -> 1
      [] raw = "2.0" -> 2
      [] raw = "10.0" -> 10

Row(sym, d, c, a) == [kind |-> "row", symbol |-> sym, date |-> d, close |-> c, adj_close |-> a]

GoodRow(sym, d) == Row(sym, d, "10.0", "12.5")

\* An empty line of the file: counted by the line scan, skipped by the CSV reader.
BlankLine == [kind |-> "blank", symbol |-> <<>>, date |-> "", close |-> "", adj_close |-> ""]

\* A line with more fields than the header: the CSV reader raises on it.
MalformedLine == [kind |-> "malformed", symbol |-> <<>>, date |-> "", close |-> "", adj_close |-> ""]

\* Three valid rows with distinct keys, two symbols, two chunks.
FileClean ==
    [columns |-> EXPECTED_CSV_COLUMNS,
     lines |-> << GoodRow(Str("A"), "2020-01-01"), GoodRow(Str("B"), "2020-01-01"),
                  GoodRow(Str("A"), "2020-01-02") >>]

\* Padded header and symbol, a blank line, a duplicate key inside the file, and a
\* second chunk whose only row has an unparseable date.
FileMessy ==
    [columns |-> HeaderPadded,
     lines |-> << GoodRow(Padded("A"), "2020-01-01"), BlankLine,
                  GoodRow(Str("A"), "2020-01-01"),
                  Row(Str("B"), "not-a-date", "10.0", "12.5") >>]

\* A first chunk that inserts, then a line the reader cannot tokenize.
FileBroken ==
    [columns |-> EXPECTED_CSV_COLUMNS,
     lines |-> << GoodRow(Str("B"), "2020-01-01"), Row(Str("B"), "2020-01-02", "10.0", "n/a"),
                  MalformedLine >>]

FileBadHeader ==
    [columns |-> HeaderSwapped, lines |-> << GoodRow(Str("B"), "2020-01-02") >>]

FileHeaderOnly == [columns |-> EXPECTED_CSV_COLUMNS, lines |-> << >>]

\* A file of zero bytes.
FileEmpty == [columns |-> << >>, lines |-> << >>]

\* One valid row: the upload the symbol cache is watched over.
FileOneRow == [columns |-> EXPECTED_CSV_COLUMNS, lines |-> << GoodRow(Str("A"), "2020-01-01") >>]

Files == {FileClean, FileMessy, FileBroken, FileBadHeader, FileHeaderOnly, FileEmpty}

(***************************************************************************)
(* State                                                                   *)
(***************************************************************************)
VARIABLES
    imports,          \* imports collection: _id -> ImportRecord (DOMAIN = the stored ids)
    stock_prices,     \* stock_prices collection: a set of price documents
    symbols_cache,    \* _symbols_cache["data"]: <<>> for None, else <<snapshot>>
    file,             \* the staged temp file of each upload
    task,             \* the _process_and_cleanup background task of each upload
    del,              \* the delete_import background task of each DELETE request
    recovery,         \* cleanup_orphaned_prices at startup: its position and locals
    tmp_path,         \* os.path.exists(tmp_path) of the temp file of each upload
    expires_at,       \* _symbols_cache["expires_at"], in seconds
    clock,            \* time.time(), in seconds
    reader,           \* the GET /api/stock-prices/symbols call of each worker thread
    bt,               \* the strategy run of a backtest: its inputs, locals and outputs
    snap_hist,        \* history, read by no action: when the snapshots were aggregated
    hist              \* history, read by no action: what each upload found in the
                      \* store, which deletes had finished, chunks begun after DELETE

\* What the ingestion, deletion and recovery tasks never touch.
callVars == <<clock, reader, bt, snap_hist>>

vars ==
    <<imports, stock_prices, symbols_cache, file, task, del, recovery, tmp_path, expires_at,
      hist, callVars>>

(***************************************************************************)
(* Pure functions of services/csv_processor.py                             *)
(***************************************************************************)
Min(a, b) == IF a <= b THEN a ELSE b

Max(a, b) == IF a >= b THEN a ELSE b

RECURSIVE lstrip(_)
lstrip(s) == IF s # << >> /\ Head(s) = " " THEN lstrip(Tail(s)) ELSE s

RECURSIVE rstrip(_)
rstrip(s) == IF s # << >> /\ s[Len(s)] = " " THEN rstrip(SubSeq(s, 1, Len(s) - 1)) ELSE s

\* str.strip()
strip(s) == rstrip(lstrip(s))

\* Physical lines of the file: the header line, if any, and every line after it.
PhysicalLines(f) == (IF f.columns = << >> THEN 0 ELSE 1) + Len(f.lines)

\* Variant: the header is subtracted twice.
count_csv_rows_minus_two(f) == Max(PhysicalLines(f) - 2, 0)

_count_csv_rows(f) == Max(PhysicalLines(f) - 1, 0)

IsDataRow(l) == l.kind # "blank"

\* pd.read_csv skips blank lines; the rows it yields, in file order.
ParsedRows(f) == SelectSeq(f.lines, IsDataRow)

\* The chunks the reader yields: a file with a header and no rows yields one
\* empty chunk, and none after an exact multiple of the chunk size.
NumChunks(f) ==
    IF Len(ParsedRows(f)) = 0 THEN 1
    ELSE (Len(ParsedRows(f)) + csv_chunk_size - 1) \div csv_chunk_size

\* Chunk c (0-based) of the file.
Chunk(f, c) ==
    SubSeq(ParsedRows(f), c * csv_chunk_size + 1,
           Min((c + 1) * csv_chunk_size, Len(ParsedRows(f))))

\* The reader raises ParserError when the chunk it reads holds a malformed line.
ReadRaises(f, c) == \E k \in 1 .. Len(Chunk(f, c)) : Chunk(f, c)[k].kind = "malformed"

_validate_header_ok(columns) ==
    [k \in 1 .. Len(columns) |-> strip(columns[k])]
        = [k \in 1 .. Len(EXPECTED_CSV_COLUMNS) |-> strip(EXPECTED_CSV_COLUMNS[k])]

\* pd.to_datetime(errors="coerce"): NaT for a text that is no date.
to_datetime(raw) == IF raw \in IsoDates THEN raw ELSE "NaT"

\* pd.to_numeric(errors="coerce"): NaN for a text that is no number.
to_numeric(raw) == IF raw \in Decimals THEN raw ELSE "NaN"

Document(l, oid) ==
    [symbol |-> strip(l.symbol), date |-> to_datetime(l.date), close |-> to_numeric(l.close),
     adj_close |-> to_numeric(l.adj_close), import_id |-> oid]

\* dropna(subset=["date", "close", "adj_close"])
Survives(d) == d.date # "NaT" /\ d.close # "NaN" /\ d.adj_close # "NaN"

\* The documents of a chunk, in row order, rows with missing critical fields dropped.
_transform_chunk(chunk, oid) ==
    SelectSeq([k \in 1 .. Len(chunk) |-> Document(chunk[k], oid)], Survives)

\* The adj_close values that ingestion stores: those of the rows _transform_chunk
\* keeps.
IngestedPriceLevels ==
    LET documents ==
            UNION {{d \in {Document(Row(<<"A">>, "2020-01-01", "10.0", raw), 1)} : Survives(d)}
                   : raw \in AdjCloseTexts}
    IN  {float64(d.adj_close) : d \in documents}

(***************************************************************************)
(* Store operations (pymongo) and services/import_service.py               *)
(***************************************************************************)
\* None, or the value wrapped in a one-element sequence.
None == << >>

Some(v) == <<v>>

\* create_import: the document inserted for a new upload.
NewImport ==
    [status |-> "pending", total_rows |-> 0, processed_rows |-> 0, symbols_count |-> 0,
     error |-> "null"]

create_import(imps, id) == [j \in DOMAIN imps \cup {id} |-> IF j = id THEN NewImport ELSE imps[j]]

\* find_one({"_id": id})
get_import_status(imps, id) == IF id \in DOMAIN imps THEN Some(imps[id]) ELSE None

\* Variant: update_one(..., upsert=True) inserts a document for a missing id.
update_import_upsert(imps, id, update) ==
    [j \in DOMAIN imps \cup {id} |->
        [fld \in DOMAIN NewImport |->
            IF j = id /\ fld \in DOMAIN update THEN update[fld]
            ELSE IF j \in DOMAIN imps THEN imps[j][fld] ELSE NewImport[fld]]]

\* update_one({"_id": id}, {"$set": update}): no upsert, a missing id matches nothing.
update_import(imps, id, update) ==
    IF id \in DOMAIN imps
    THEN [imps EXCEPT ![id] =
             [fld \in DOMAIN imps[id] |->
                 IF fld \in DOMAIN update THEN update[fld] ELSE imps[id][fld]]]
    ELSE imps

\* delete_one({"_id": id})
delete_one(imps, id) == [j \in DOMAIN imps \ {id} |-> imps[j]]

\* Variant: the index is created without unique=True.
NonUniqueIndexAdmits(store, doc) == TRUE

\* The unique index symbol_date_unique: a document is admitted when no stored
\* document has its (symbol, date).
UniqueIndexAdmits(store, doc) ==
    ~ \E p \in store : p.symbol = doc.symbol /\ p.date = doc.date

\* insert_many(ordered=False), one document of the batch: a duplicate key is
\* rejected and the rest of the batch goes on.
insert_document(store, doc) == IF UniqueIndexAdmits(store, doc) THEN store \cup {doc} ELSE store

\* Variant: _bulk_insert returns len(documents), duplicates included.
nAttempted(store, doc) == 1

\* _bulk_insert's count for one document: len(inserted_ids) / nInserted.
nInserted(store, doc) == IF UniqueIndexAdmits(store, doc) THEN 1 ELSE 0

\* Variant: the filter compares import_id with the id string, which matches nothing.
delete_many_by_string_id(store, oid) == store

\* Variant: delete_many({}), an empty filter, which matches every document.
delete_many_unfiltered(store, oid) == {}

\* delete_many({"import_id": oid})
delete_many(store, oid) == {p \in store : p.import_id # oid}

\* distinct("symbol", {"import_id": oid})
distinct_symbols(store, oid) == {p.symbol : p \in {q \in store : q.import_id = oid}}

\* The $group / $sort / $project pipeline of get_symbols: one entry per symbol
\* with its record count.
aggregate_symbols(store) ==
    {[symbol |-> s, count |-> Cardinality({p \in store : p.symbol = s})] :
        s \in {p.symbol : p \in store}}

\* current is None or current.get("status") == "deleting"
IsCancelled(current) == current = None \/ current[1].status = "deleting"

\* The (symbol, date) key of a document.
DocKey(d) == <<d.symbol, d.date>>

\* The documents process_csv builds from a file, over all its chunks.
FileDocuments(f, oid) ==
    {d \in {Document(ParsedRows(f)[k], oid) : k \in 1 .. Len(ParsedRows(f))} : Survives(d)}

FileKeys(f) == {DocKey(d) : d \in FileDocuments(f, 0)}

(***************************************************************************)
(* Pure functions of services/backtest_engine.py. A float is the exact     *)
(* fraction <<numerator, denominator>> in lowest terms, denominator > 0:   *)
(* rounding is left out, so equalities hold as in real arithmetic.         *)
(***************************************************************************)
Abs(x) == IF x < 0 THEN -x ELSE x

RECURSIVE GCD(_, _)
GCD(a, b) == IF b = 0 THEN a ELSE GCD(b, a % b)

\* The fraction n / d (d # 0) in lowest terms, with a positive denominator.
Rat(n, d) ==
    LET g == GCD(Abs(n), Abs(d))
        sign == IF d < 0 THEN -1 ELSE 1
    IN  <<(sign * n) \div g, (sign * d) \div g>>

RInt(n) == <<n, 1>>

RZero == RInt(0)

RAdd(a, b) == Rat(a[1] * b[2] + b[1] * a[2], a[2] * b[2])

RSub(a, b) == Rat(a[1] * b[2] - b[1] * a[2], a[2] * b[2])

RMul(a, b) == Rat(a[1] * b[1], a[2] * b[2])

\* a / b for b # 0
RDiv(a, b) == Rat(a[1] * b[2], a[2] * b[1])

RLess(a, b) == a[1] * b[2] < b[1] * a[2]

\* The sum of xs[a .. b].
RECURSIVE SumRange(_, _, _)
SumRange(xs, a, b) == IF a > b THEN 0 ELSE xs[a] + SumRange(xs, a + 1, b)

RECURSIVE SumSquares(_, _, _)
SumSquares(xs, a, b) == IF a > b THEN 0 ELSE xs[a] * xs[a] + SumSquares(xs, a + 1, b)

\* adj.rolling(w): the window ending at bar k is defined once it holds w bars.
RollingDefined(k, w) == k >= w

\* adj.rolling(w).mean() at bar k
rolling_mean(adj, k, w) == Rat(SumRange(adj, k - w + 1, k), w)

\* {"weekly": 7, "monthly": 30, "quarterly": 91}[interval]
_dca_interval_days(interval) ==
    CASE interval = "weekly" -> 7
      [] interval = "monthly" -> 30
      [] interval = "quarterly" -> 91

\* delta.clip(lower=0.0) at bar k >= 2, of delta (sign 1) or of -delta (sign -1)
Clipped(adj, k, sign) ==
    LET delta == sign * (adj[k] - adj[k - 1]) IN IF delta > 0 THEN delta ELSE 0

\* ewm(alpha=1/period, adjust=False).mean() of the clipped series at bar k >= 2:
\* the first bar has no delta, the second starts the average.
RECURSIVE ewm_mean(_, _, _, _)
ewm_mean(adj, k, period, sign) ==
    IF k = 2 THEN RInt(Clipped(adj, k, sign))
    ELSE RDiv(RAdd(RMul(RInt(period - 1), ewm_mean(adj, k - 1, period, sign)),
                   RInt(Clipped(adj, k, sign))),
              RInt(period))

\* _compute_rsi at bar k: NaN (None) on the first bar and while avg_loss is 0.
_compute_rsi(adj, k, period) ==
    IF k < 2 \/ ewm_mean(adj, k, period, -1) = RZero THEN None
    ELSE LET rs == RDiv(ewm_mean(adj, k, period, 1), ewm_mean(adj, k, period, -1))
         IN  Some(RSub(RInt(100), RDiv(RInt(100), RAdd(RInt(1), rs))))

\* price < sma - bb_std * std (side 1) or price > sma + bb_std * std (side -1) at
\* bar k, with std the sample deviation of the window: compared through squares,
\*   w * (sma - price) = S - w * price,  w * (w - 1) * std^2 = w * Q - S^2.
OutsideBand(adj, k, w, bb_std, side) ==
    LET S == SumRange(adj, k - w + 1, k)
        Q == SumSquares(adj, k - w + 1, k)
        dev == side * (S - w * adj[k])
    IN  /\ dev > 0
        /\ dev * dev * (w - 1) * bb_std[2] * bb_std[2] > bb_std[1] * bb_std[1] * w * (w * Q - S * S)

\* TradeRecord; the date is the number of the bar.
TradeRecord(k, action, price, shares, cash_after, portfolio_value) ==
    [date |-> k, action |-> action, price |-> price, shares |-> shares,
     cash_after |-> cash_after, portfolio_value |-> portfolio_value]

\* Variant: half of the position is sold.
sell_half(b, k) ==
    LET price_f == RInt(b.prices[k])
        sold == RDiv(b.shares, RInt(2))
        cash == RAdd(b.cash, RMul(sold, price_f))
    IN  [b EXCEPT !.cash = cash, !.shares = RSub(b.shares, sold), !.in_market = FALSE,
                  !.trades = Append(@, TradeRecord(k, "SELL", price_f, sold, cash, cash))]

\* The BUY branch of the signal strategies: all cash is spent at the bar's price.
buy_all(b, k) ==
    LET price_f == RInt(b.prices[k])
        new_shares == RDiv(b.cash, price_f)
        shares == RAdd(b.shares, new_shares)
    IN  [b EXCEPT !.cash = RZero, !.shares = shares, !.in_market = TRUE,
                  !.trades = Append(@, TradeRecord(k, "BUY", price_f, new_shares, RZero,
                                                   RMul(shares, price_f)))]

\* The SELL branch of the signal strategies: all shares are sold at the bar's price.
sell_all(b, k) ==
    LET price_f == RInt(b.prices[k])
        cash == RAdd(b.cash, RMul(b.shares, price_f))
    IN  [b EXCEPT !.cash = cash, !.shares = RZero, !.in_market = FALSE,
                  !.trades = Append(@, TradeRecord(k, "SELL", price_f, b.shares, cash, cash))]

\* Variant: the equity is recorded on the bars with a position only.
end_of_bar_invested_only(b, k) ==
    [b EXCEPT !.equity = IF b.shares = RZero THEN @
                         ELSE Append(@, RAdd(b.cash, RMul(b.shares, RInt(b.prices[k])))),
              !.i = k,
              !.pc = IF k = Len(b.prices) THEN "done" ELSE "run"]

\* equity_values.append(cash + shares * price_f), and on to the next bar.
end_of_bar(b, k) ==
    [b EXCEPT !.equity = Append(@, RAdd(b.cash, RMul(b.shares, RInt(b.prices[k])))),
              !.i = k,
              !.pc = IF k = Len(b.prices) THEN "done" ELSE "run"]

\* Variant: RSI buys whenever the RSI is below the threshold.
rsi_buy_signal_ungated(b, k) ==
    LET curr_rsi == _compute_rsi(b.prices, k, b.params.rsi_period)
    IN  curr_rsi # None /\ RLess(curr_rsi[1], RInt(b.params.oversold))

\* not in_market and curr_rsi < params.oversold and cash > 0
rsi_buy_signal(b, k) ==
    LET curr_rsi == _compute_rsi(b.prices, k, b.params.rsi_period)
    IN  /\ curr_rsi # None
        /\ ~ b.in_market /\ RLess(curr_rsi[1], RInt(b.params.oversold)) /\ RLess(RZero, b.cash)

\* in_market and curr_rsi > params.overbought and shares > 0
rsi_sell_signal(b, k) ==
    LET curr_rsi == _compute_rsi(b.prices, k, b.params.rsi_period)
    IN  /\ curr_rsi # None
        /\ b.in_market /\ RLess(RInt(b.params.overbought), curr_rsi[1]) /\ RLess(RZero, b.shares)

\* Both moving averages are defined at bar k.
ma_defined(b, k) ==
    RollingDefined(k, b.params.short_window) /\ RollingDefined(k, b.params.long_window)

\* above = s > l
ma_above(b, k) ==
    RLess(rolling_mean(b.prices, k, b.params.long_window),
          rolling_mean(b.prices, k, b.params.short_window))

\* The locals of a strategy run at its start.
StartRun(req) ==
    [pc |-> "run", path |-> req.path, status |-> 200,
     strategy |-> req.strategy, params |-> req.params,
     initial_capital |-> req.initial_capital, prices |-> req.prices, i |-> 0,
     cash |-> IF req.strategy \in SignalStrategies THEN req.initial_capital ELSE RZero,
     shares |-> RZero, in_market |-> FALSE, prev_above |-> None, last_invest_date |-> None,
     total_injected |-> RZero, trades |-> << >>, equity |-> << >>]

\* Variant: an injection needs more than interval_days since the last one.
invest_now_after_interval(b, k) ==
    \/ b.last_invest_date = None
    \/ k - b.last_invest_date[1] > _dca_interval_days(b.params.interval)

\* invest_now: the first bar, or interval_days or more since the last injection.
invest_now(b, k) ==
    \/ b.last_invest_date = None
    \/ k - b.last_invest_date[1] >= _dca_interval_days(b.params.interval)

\* Variant: the capital is deployed at the last bar's price.
_run_buy_and_hold_at_last_close(b) ==
    LET t0_price == RInt(b.prices[Len(b.prices)])
        shares == RDiv(b.initial_capital, t0_price)
        cash == RZero
    IN  [b EXCEPT
            !.pc = "done", !.i = Len(b.prices), !.shares = shares, !.cash = cash,
            !.trades = << TradeRecord(1, "BUY", t0_price, shares, cash,
                                      RMul(shares, t0_price)) >>,
            !.equity = [k \in 1 .. Len(b.prices) |-> RMul(RInt(b.prices[k]), shares)]]

\* _run_buy_and_hold: all capital is deployed at the first bar's price.
_run_buy_and_hold_result(b) ==
    LET t0_price == RInt(b.prices[1])
        shares == RDiv(b.initial_capital, t0_price)
        cash == RZero
    IN  [b EXCEPT
            !.pc = "done", !.i = Len(b.prices), !.shares = shares, !.cash = cash,
            !.trades = << TradeRecord(1, "BUY", t0_price, shares, cash,
                                      RMul(shares, t0_price)) >>,
            !.equity = [k \in 1 .. Len(b.prices) |-> RMul(RInt(b.prices[k]), shares)]]

\* The body of the loop of _run_dca at bar k: on an injection day a fresh amount
\* buys shares at the close.
_run_dca_body(b, k) ==
    LET price_f == RInt(b.prices[k])
        new_shares == RDiv(RInt(b.params.amount), price_f)
        shares == RAdd(b.shares, new_shares)
        b1 == IF invest_now(b, k)
              THEN [b EXCEPT
                       !.shares = shares,
                       !.total_injected = RAdd(@, RInt(b.params.amount)),
                       !.last_invest_date = Some(k),
                       !.trades = Append(@, TradeRecord(k, "BUY", price_f, new_shares, RZero,
                                                        RMul(shares, price_f)))]
              ELSE b
    IN  [b1 EXCEPT !.equity = Append(@, RMul(b1.shares, price_f)),
                   !.i = k,
                   !.pc = IF k = Len(b.prices) THEN "done" ELSE "run"]

\* Variant: on the first bar with both averages the short one counts as having
\* been below before.
_run_ma_crossover_body_without_warmup(b, k) ==
    LET defined == ma_defined(b, k)
        above == ma_above(b, k)
        prev_above == IF b.prev_above = None THEN FALSE ELSE b.prev_above[1]
        b1 == IF defined
              THEN IF above /\ ~ prev_above /\ RLess(RZero, b.cash)
                   THEN buy_all(b, k)
                   ELSE IF ~ above /\ prev_above /\ RLess(RZero, b.shares)
                   THEN sell_all(b, k)
                   ELSE b
              ELSE b
        b2 == IF defined THEN [b1 EXCEPT !.prev_above = Some(above)] ELSE b1
    IN  end_of_bar(b2, k)

\* The body of the loop of _run_ma_crossover at bar k: BUY on a golden cross, SELL
\* on a death cross, once a previous bar has recorded prev_above.
_run_ma_crossover_body(b, k) ==
    LET defined == ma_defined(b, k)
        above == ma_above(b, k)
        b1 == IF defined /\ b.prev_above # None
              THEN IF above /\ ~ b.prev_above[1] /\ RLess(RZero, b.cash)
                   THEN buy_all(b, k)
                   ELSE IF ~ above /\ b.prev_above[1] /\ RLess(RZero, b.shares)
                   THEN sell_all(b, k)
                   ELSE b
              ELSE b
        b2 == IF defined THEN [b1 EXCEPT !.prev_above = Some(above)] ELSE b1
    IN  end_of_bar(b2, k)

\* The body of the loop of _run_rsi at bar k.
_run_rsi_body(b, k) ==
    LET b1 == IF rsi_buy_signal(b, k) THEN buy_all(b, k)
              ELSE IF rsi_sell_signal(b, k) THEN sell_all(b, k)
              ELSE b
    IN  end_of_bar(b1, k)

\* The body of the loop of _run_bollinger_bands at bar k: the bands are defined
\* once the window is full.
_run_bollinger_bands_body(b, k) ==
    LET w == b.params.bb_window
        defined == RollingDefined(k, w)
        b1 == IF defined /\ ~ b.in_market
                 /\ OutsideBand(b.prices, k, w, b.params.bb_std, 1) /\ RLess(RZero, b.cash)
              THEN buy_all(b, k)
              ELSE IF defined /\ b.in_market
                      /\ OutsideBand(b.prices, k, w, b.params.bb_std, -1)
                      /\ RLess(RZero, b.shares)
              THEN sell_all(b, k)
              ELSE b
    IN  end_of_bar(b1, k)

\* The loop body of the strategy of b.
loop_body(b, k) ==
    CASE b.strategy = "dca" -> _run_dca_body(b, k)
      [] b.strategy = "ma_crossover" -> _run_ma_crossover_body(b, k)
      [] b.strategy = "rsi" -> _run_rsi_body(b, k)
      [] b.strategy = "bollinger_bands" -> _run_bollinger_bands_body(b, k)

\* The locals after the first n bars of the loop (the locals after n - 1 bars are
\* computed once and bound to prev).
RECURSIVE loop(_, _)
loop(b, n) ==
    IF n = 0 THEN b
    ELSE CHOOSE next \in {loop_body(prev, n) : prev \in {loop(b, n - 1)}} : TRUE

\* A whole strategy run, from its locals at the start.
run_strategy(b) ==
    IF b.strategy = "buy_and_hold" THEN _run_buy_and_hold_result(b)
    ELSE loop(b, Len(b.prices))


(***************************************************************************)
(* Initial state: an empty database, no upload, no request in flight. The  *)
(* symbol cache is as GET /api/stock-prices/symbols calls served before    *)
(* the first upload leave it: never filled, or holding the (empty)         *)
(* aggregation of the empty store.                                         *)
(***************************************************************************)
IdleTask ==
    [pc |-> "none", chunk_count |-> 0, header_validated |-> FALSE, pos |-> 0,
     processed |-> 0, symbols_count |-> 0, error |-> "null"]

\* The startup sweep has run (on an empty database) before any request is served.
RecoveryDone == [pc |-> "done", stuck_ids |-> {}, price_import_ids |-> {}, orphaned_ids |-> {}]

NoHistory == [seen |-> {}, settled |-> {}, chunks_after_delete |-> 0]

\* The locals of get_symbols.
IdleReader == [pc |-> "idle", now |-> 0, results |-> {}]

\* When the snapshot in the cache and the results of each call were aggregated.
NoSnapshots == [held_at |-> 0, computed_at |-> [r \in Readers |-> 0]]

NoBacktest == [pc |-> "none"]

Init ==
    /\ imports = << >>
    /\ stock_prices = {}
    /\ symbols_cache \in {None, Some(aggregate_symbols({}))}
    /\ file = [i \in ImportIds |-> FileEmpty]
    /\ task = [i \in ImportIds |-> IdleTask]
    /\ del = [i \in ImportIds |-> "none"]
    /\ recovery = RecoveryDone
    /\ tmp_path = [i \in ImportIds |-> FALSE]
    /\ hist = [i \in ImportIds |-> NoHistory]
    /\ expires_at = IF symbols_cache = None THEN 0 ELSE SYMBOLS_CACHE_TTL
    /\ clock = 0
    /\ reader = [r \in Readers |-> IdleReader]
    /\ bt = NoBacktest
    /\ snap_hist = NoSnapshots

(***************************************************************************)
(* POST /api/imports/upload (routers/imports.py)                           *)
(***************************************************************************)
\* The file is staged and create_import raises (the insert fails): the request
\* ends with an error, no record is created and no task is scheduled.
upload_csv_create_import_raises(i, f) ==
    /\ task[i].pc = "none"
    /\ \A j \in ImportIds : j < i => task[j].pc # "none"
    /\ file' = [file EXCEPT ![i] = f]
    /\ tmp_path' = [tmp_path EXCEPT ![i] = TRUE]
    /\ task' = [task EXCEPT ![i].pc = "rejected"]
    /\ UNCHANGED <<imports, stock_prices, symbols_cache, del, recovery, hist, expires_at, callVars>>

\* The file is staged, the ImportRecord created and the background task scheduled.
upload_csv(i, f) ==
    /\ task[i].pc = "none"
    /\ \A j \in ImportIds : j < i => task[j].pc # "none"
    /\ file' = [file EXCEPT ![i] = f]
    /\ tmp_path' = [tmp_path EXCEPT ![i] = TRUE]
    /\ imports' = create_import(imports, i)
    /\ task' = [task EXCEPT ![i].pc = "scheduled"]
    /\ hist' = [hist EXCEPT ![i] = [seen |-> {p \in stock_prices : DocKey(p) \in FileKeys(f)},
                                     settled |-> {j \in ImportIds : del[j] = "done"},
                                     chunks_after_delete |-> 0]]
    /\ UNCHANGED <<stock_prices, symbols_cache, del, recovery, expires_at, callVars>>

(***************************************************************************)
(* process_csv (services/csv_processor.py), one action per store operation *)
(***************************************************************************)
\* Where the task stands after asking the reader for chunk c: past the last
\* chunk, in the exception handler, or at the cancellation check of the chunk.
AfterRead(f, c) ==
    IF c >= NumChunks(f) THEN "final_check"
    ELSE IF ReadRaises(f, c) THEN "except"
    ELSE "check"

ReadError(f, c) == IF c < NumChunks(f) /\ ReadRaises(f, c) THEN "ParserError" ELSE "null"

\* Variant: the task never writes the transition to processing.
process_csv_start_without_status(i) ==
    /\ task[i].pc = "scheduled"
    /\ task' = [task EXCEPT ![i].pc = "count"]
    /\ UNCHANGED <<imports, stock_prices, symbols_cache, file, del, recovery, hist, tmp_path, expires_at, callVars>>

\* update_import(import_id, {"status": "processing"})
process_csv_start(i) ==
    /\ task[i].pc = "scheduled"
    /\ imports' = update_import(imports, i, [status |-> "processing"])
    /\ task' = [task EXCEPT ![i].pc = "count"]
    /\ UNCHANGED <<stock_prices, symbols_cache, file, del, recovery, hist, tmp_path, expires_at, callVars>>

\* total_rows is counted and persisted, the reader is opened (an empty file
\* raises EmptyDataError) and asked for the first chunk.
process_csv_count(i) ==
    /\ task[i].pc = "count"
    /\ imports' = update_import(imports, i, [total_rows |-> _count_csv_rows(file[i])])
    /\ task' = [task EXCEPT
                  ![i].pc = IF file[i].columns = << >> THEN "except" ELSE AfterRead(file[i], 0),
                  ![i].error = IF file[i].columns = << >> THEN "EmptyDataError"
                               ELSE ReadError(file[i], 0)]
    /\ UNCHANGED <<stock_prices, symbols_cache, file, del, recovery, hist, tmp_path, expires_at, callVars>>

\* Variant: the header of the first chunk is not validated.
process_csv_check_without_validation(i) ==
    /\ task[i].pc = "check"
    /\ LET current == get_import_status(imports, i)
           docs == _transform_chunk(Chunk(file[i], task[i].chunk_count), i)
       IN  IF IsCancelled(current)
           THEN task' = [task EXCEPT ![i].pc = "cancel"]
           ELSE task' = [task EXCEPT ![i].header_validated = TRUE,
                                     ![i].pos = 0,
                                     ![i].pc = IF docs # << >> THEN "insert" ELSE "update"]
    /\ hist' = IF task'[i].pc = "insert" /\ del[i] # "none"
               THEN [hist EXCEPT ![i].chunks_after_delete = @ + 1]
               ELSE hist
    /\ UNCHANGED <<imports, stock_prices, symbols_cache, file, del, recovery, tmp_path, expires_at, callVars>>

\* The cancellation check at the top of the loop body, then header validation
\* (first chunk) and the transformation of the chunk.
process_csv_check(i) ==
    /\ task[i].pc = "check"
    /\ LET current == get_import_status(imports, i)
           docs == _transform_chunk(Chunk(file[i], task[i].chunk_count), i)
       IN  IF IsCancelled(current)
           THEN task' = [task EXCEPT ![i].pc = "cancel"]
           ELSE IF ~ task[i].header_validated /\ ~ _validate_header_ok(file[i].columns)
           THEN task' = [task EXCEPT ![i].pc = "except", ![i].error = "ValueError"]
           ELSE task' = [task EXCEPT ![i].header_validated = TRUE,
                                     ![i].pos = 0,
                                     ![i].pc = IF docs # << >> THEN "insert" ELSE "update"]
    /\ hist' = IF task'[i].pc = "insert" /\ del[i] # "none"
               THEN [hist EXCEPT ![i].chunks_after_delete = @ + 1]
               ELSE hist
    /\ UNCHANGED <<imports, stock_prices, symbols_cache, file, del, recovery, tmp_path, expires_at, callVars>>

\* _bulk_insert: insert_many writes the documents of the chunk one by one.
process_csv_insert(i) ==
    /\ task[i].pc = "insert"
    /\ LET docs == _transform_chunk(Chunk(file[i], task[i].chunk_count), i)
           doc == docs[task[i].pos + 1]
       IN  /\ stock_prices' = insert_document(stock_prices, doc)
           /\ task' = [task EXCEPT
                         ![i].processed = @ + nInserted(stock_prices, doc),
                         ![i].pos = @ + 1,
                         ![i].pc = IF task[i].pos + 1 = Len(docs) THEN "update" ELSE "insert"]
    /\ UNCHANGED <<imports, symbols_cache, file, del, recovery, hist, tmp_path, expires_at, callVars>>

\* chunk_count += 1; update_import(processed_rows [, symbols_count]); next chunk.
process_csv_update(i) ==
    /\ task[i].pc = "update"
    /\ LET n == task[i].chunk_count + 1
           update_data ==
               IF n % SymbolsRefreshEvery = 0
               THEN [processed_rows |-> task[i].processed,
                     symbols_count |-> Cardinality(distinct_symbols(stock_prices, i))]
               ELSE [processed_rows |-> task[i].processed]
       IN  /\ imports' = update_import(imports, i, update_data)
           /\ task' = [task EXCEPT ![i].chunk_count = n,
                                     ![i].pc = AfterRead(file[i], n),
                                     ![i].error = ReadError(file[i], n)]
    /\ UNCHANGED <<stock_prices, symbols_cache, file, del, recovery, hist, tmp_path, expires_at, callVars>>

\* The final cancellation check before marking complete.
process_csv_final_check(i) ==
    /\ task[i].pc = "final_check"
    /\ task' = [task EXCEPT
                  ![i].pc = IF IsCancelled(get_import_status(imports, i))
                            THEN "cancel" ELSE "distinct"]
    /\ UNCHANGED <<imports, stock_prices, symbols_cache, file, del, recovery, hist, tmp_path, expires_at, callVars>>

\* symbols_count = len(distinct("symbol", {"import_id": oid}))
process_csv_distinct(i) ==
    /\ task[i].pc = "distinct"
    /\ task' = [task EXCEPT ![i].symbols_count = Cardinality(distinct_symbols(stock_prices, i)),
                              ![i].pc = "complete"]
    /\ UNCHANGED <<imports, stock_prices, symbols_cache, file, del, recovery, hist, tmp_path, expires_at, callVars>>

\* update_import(status completed, processed_rows, symbols_count)
process_csv_complete(i) ==
    /\ task[i].pc = "complete"
    /\ imports' = update_import(imports, i,
                      [status |-> "completed", processed_rows |-> task[i].processed,
                       symbols_count |-> task[i].symbols_count])
    /\ task' = [task EXCEPT ![i].pc = "invalidate"]
    /\ UNCHANGED <<stock_prices, symbols_cache, file, del, recovery, hist, tmp_path, expires_at, callVars>>

\* Cancellation observed: delete_many({"import_id": oid})
process_csv_cancel(i) ==
    /\ task[i].pc = "cancel"
    /\ stock_prices' = delete_many(stock_prices, i)
    /\ task' = [task EXCEPT ![i].pc = "invalidate"]
    /\ UNCHANGED <<imports, symbols_cache, file, del, recovery, hist, tmp_path, expires_at, callVars>>

\* invalidate_symbols_cache(), after completion and after cancellation; process_csv
\* returns.
process_csv_invalidate(i) ==
    /\ task[i].pc = "invalidate"
    /\ symbols_cache' = None
    /\ expires_at' = 0
    /\ task' = [task EXCEPT ![i].pc = "unlink"]
    /\ UNCHANGED <<imports, stock_prices, file, del, recovery, hist, tmp_path, callVars>>

\* Variant: the handler removes the rows of the failed import.
process_csv_except_with_rollback(i) ==
    /\ task[i].pc = "except"
    /\ imports' = update_import(imports, i, [status |-> "failed", error |-> task[i].error])
    /\ stock_prices' = delete_many(stock_prices, i)
    /\ task' = [task EXCEPT ![i].pc = "unlink"]
    /\ UNCHANGED <<symbols_cache, file, del, recovery, hist, tmp_path, expires_at, callVars>>

\* Variant: the handler only logs the exception.
process_csv_except_logging_only(i) ==
    /\ task[i].pc = "except"
    /\ task' = [task EXCEPT ![i].pc = "unlink"]
    /\ UNCHANGED <<imports, stock_prices, symbols_cache, file, del, recovery, hist, tmp_path, expires_at, callVars>>

\* except Exception: update_import(status failed, error)
process_csv_except(i) ==
    /\ task[i].pc = "except"
    /\ imports' = update_import(imports, i, [status |-> "failed", error |-> task[i].error])
    /\ task' = [task EXCEPT ![i].pc = "unlink"]
    /\ UNCHANGED <<stock_prices, symbols_cache, file, del, recovery, hist, tmp_path, expires_at, callVars>>

\* _process_and_cleanup, finally: os.unlink(file_path) once process_csv has
\* returned, whichever way it did.
_process_and_cleanup_unlink(i) ==
    /\ task[i].pc = "unlink"
    /\ tmp_path' = [tmp_path EXCEPT ![i] = FALSE]
    /\ task' = [task EXCEPT ![i].pc = "done"]
    /\ UNCHANGED <<imports, stock_prices, symbols_cache, file, del, recovery, hist, expires_at, callVars>>

(***************************************************************************)
(* DELETE /api/imports/{id} and delete_import                              *)
(***************************************************************************)
\* remove_import: 404 for a missing record, else mark it deleting and schedule
\* delete_import in the background.
remove_import(i) ==
    /\ del[i] = "none"
    /\ Cardinality({j \in ImportIds : del[j] # "none"}) < MaxDeleteRequests
    /\ get_import_status(imports, i) # None
    /\ imports' = update_import(imports, i, [status |-> "deleting"])
    /\ del' = [del EXCEPT ![i] = "scheduled"]
    /\ hist' = [hist EXCEPT ![i].chunks_after_delete = IF task[i].pc = "insert" THEN 1 ELSE 0]
    /\ UNCHANGED <<stock_prices, symbols_cache, file, task, recovery, tmp_path, expires_at, callVars>>

\* delete_import: update_one(status deleting)
delete_import_mark(i) ==
    /\ del[i] = "scheduled"
    /\ imports' = update_import(imports, i, [status |-> "deleting"])
    /\ del' = [del EXCEPT ![i] = "marked"]
    /\ UNCHANGED <<stock_prices, symbols_cache, file, task, recovery, hist, tmp_path, expires_at, callVars>>

\* delete_import: delete_many({"import_id": oid})
delete_import_prices(i) ==
    /\ del[i] = "marked"
    /\ stock_prices' = delete_many(stock_prices, i)
    /\ del' = [del EXCEPT ![i] = "prices_deleted"]
    /\ UNCHANGED <<imports, symbols_cache, file, task, recovery, hist, tmp_path, expires_at, callVars>>

\* delete_import: delete_one({"_id": oid}); invalidate only if a record was deleted.
delete_import_record(i) ==
    /\ del[i] = "prices_deleted"
    /\ imports' = delete_one(imports, i)
    /\ del' = [del EXCEPT ![i] = IF i \in DOMAIN imports THEN "invalidate" ELSE "done"]
    /\ UNCHANGED <<stock_prices, symbols_cache, file, task, recovery, hist, tmp_path, expires_at, callVars>>

\* delete_import: invalidate_symbols_cache(); return.
delete_import_invalidate(i) ==
    /\ del[i] = "invalidate"
    /\ symbols_cache' = None
    /\ expires_at' = 0
    /\ del' = [del EXCEPT ![i] = "done"]
    /\ UNCHANGED <<imports, stock_prices, file, task, recovery, hist, tmp_path, callVars>>

Next ==
    \/ \E i \in ImportIds, f \in Files : upload_csv(i, f)
    \/ \E i \in ImportIds, f \in Files : upload_csv_create_import_raises(i, f)
    \/ \E i \in ImportIds : process_csv_start(i)
    \/ \E i \in ImportIds : process_csv_count(i)
    \/ \E i \in ImportIds : process_csv_check(i)
    \/ \E i \in ImportIds : process_csv_insert(i)
    \/ \E i \in ImportIds : process_csv_update(i)
    \/ \E i \in ImportIds : process_csv_final_check(i)
    \/ \E i \in ImportIds : process_csv_distinct(i)
    \/ \E i \in ImportIds : process_csv_complete(i)
    \/ \E i \in ImportIds : process_csv_cancel(i)
    \/ \E i \in ImportIds : process_csv_invalidate(i)
    \/ \E i \in ImportIds : process_csv_except(i)
    \/ \E i \in ImportIds : _process_and_cleanup_unlink(i)
    \/ \E i \in ImportIds : remove_import(i)
    \/ \E i \in ImportIds : delete_import_mark(i)
    \/ \E i \in ImportIds : delete_import_prices(i)
    \/ \E i \in ImportIds : delete_import_record(i)
    \/ \E i \in ImportIds : delete_import_invalidate(i)

Spec == Init /\ [][Next]_vars

\* The steps of the background task of upload i (_process_and_cleanup) and of the
\* background task of DELETE i (delete_import).
_process_and_cleanup(i) ==
    \/ process_csv_start(i)
    \/ process_csv_count(i)
    \/ process_csv_check(i)
    \/ process_csv_insert(i)
    \/ process_csv_update(i)
    \/ process_csv_final_check(i)
    \/ process_csv_distinct(i)
    \/ process_csv_complete(i)
    \/ process_csv_cancel(i)
    \/ process_csv_invalidate(i)
    \/ process_csv_except(i)
    \/ _process_and_cleanup_unlink(i)

delete_import(i) ==
    \/ delete_import_mark(i)
    \/ delete_import_prices(i)
    \/ delete_import_record(i)
    \/ delete_import_invalidate(i)

\* Starlette runs every scheduled background task, and a running task is never
\* starved: each task that can take a step eventually takes one.
\* One upload (of any of the files); a DELETE for it may or may not arrive.
NextFair ==
    \/ \E f \in Files : upload_csv(1, f)
    \/ _process_and_cleanup(1)
    \/ remove_import(1)
    \/ delete_import(1)

SpecFair ==
    /\ Init /\ [][NextFair]_vars
    /\ WF_vars(_process_and_cleanup(1)) /\ WF_vars(delete_import(1))

(***************************************************************************)
(* GET /api/stock-prices/symbols (routers/stock_prices.py): get_symbols is *)
(* a sync handler, so calls run on worker threads next to the background   *)
(* tasks, with no lock around _symbols_cache. One action per read or write *)
(* of the cache, the store or the clock.                                   *)
(***************************************************************************)
\* now = time.time()
get_symbols_now(r) ==
    /\ reader[r].pc = "idle"
    /\ reader' = [reader EXCEPT ![r].pc = "check_data", ![r].now = clock]
    /\ UNCHANGED <<imports, stock_prices, symbols_cache, file, task, del, recovery, tmp_path,
                   expires_at, hist, clock, bt, snap_hist>>

\* _symbols_cache["data"] is not None
get_symbols_check_data(r) ==
    /\ reader[r].pc = "check_data"
    /\ reader' = [reader EXCEPT
                    ![r].pc = IF symbols_cache # None THEN "check_expires" ELSE "aggregate"]
    /\ UNCHANGED <<imports, stock_prices, symbols_cache, file, task, del, recovery, tmp_path,
                   expires_at, hist, clock, bt, snap_hist>>

\* now < _symbols_cache["expires_at"]
get_symbols_check_expires(r) ==
    /\ reader[r].pc = "check_expires"
    /\ reader' = [reader EXCEPT
                    ![r].pc = IF reader[r].now < expires_at THEN "serve" ELSE "aggregate"]
    /\ UNCHANGED <<imports, stock_prices, symbols_cache, file, task, del, recovery, tmp_path,
                   expires_at, hist, clock, bt, snap_hist>>

\* return SymbolListResponse(symbols=_symbols_cache["data"]): data is read again.
get_symbols_serve(r) ==
    /\ reader[r].pc = "serve"
    /\ reader' = [reader EXCEPT ![r] = IdleReader]
    /\ UNCHANGED <<imports, stock_prices, symbols_cache, file, task, del, recovery, tmp_path,
                   expires_at, hist, clock, bt, snap_hist>>

\* results = list(stock_prices_collection.aggregate(pipeline))
get_symbols_aggregate(r) ==
    /\ reader[r].pc = "aggregate"
    /\ reader' = [reader EXCEPT ![r].pc = "store_data",
                                 ![r].results = aggregate_symbols(stock_prices)]
    /\ snap_hist' = [snap_hist EXCEPT !.computed_at[r] = clock]
    /\ UNCHANGED <<imports, stock_prices, symbols_cache, file, task, del, recovery, tmp_path,
                   expires_at, hist, clock, bt>>

\* _symbols_cache["data"] = results
get_symbols_store_data(r) ==
    /\ reader[r].pc = "store_data"
    /\ symbols_cache' = Some(reader[r].results)
    /\ reader' = [reader EXCEPT ![r].pc = "store_expires"]
    /\ snap_hist' = [snap_hist EXCEPT !.held_at = snap_hist.computed_at[r]]
    /\ UNCHANGED <<imports, stock_prices, file, task, del, recovery, tmp_path, expires_at, hist,
                   clock, bt>>

\* _symbols_cache["expires_at"] = now + SYMBOLS_CACHE_TTL; return the results.
get_symbols_store_expires(r) ==
    /\ reader[r].pc = "store_expires"
    /\ expires_at' = reader[r].now + SYMBOLS_CACHE_TTL
    /\ reader' = [reader EXCEPT ![r] = IdleReader]
    /\ UNCHANGED <<imports, stock_prices, symbols_cache, file, task, del, recovery, tmp_path,
                   hist, clock, bt, snap_hist>>

\* Time passes.
Tick ==
    /\ clock < MaxTicks * TickSeconds
    /\ clock' = clock + TickSeconds
    /\ UNCHANGED <<imports, stock_prices, symbols_cache, file, task, del, recovery, tmp_path,
                   expires_at, hist, reader, bt, snap_hist>>

\* The import the cache is watched over: the first one created.
FirstImport == CHOOSE i \in ImportIds : \A j \in ImportIds : i <= j

\* One upload and its ingestion, next to the readers and the clock.
NextCache ==
    \/ upload_csv(FirstImport, FileOneRow)
    \/ \E i \in ImportIds : process_csv_start(i)
    \/ \E i \in ImportIds : process_csv_count(i)
    \/ \E i \in ImportIds : process_csv_check(i)
    \/ \E i \in ImportIds : process_csv_insert(i)
    \/ \E i \in ImportIds : process_csv_update(i)
    \/ \E i \in ImportIds : process_csv_final_check(i)
    \/ \E i \in ImportIds : process_csv_distinct(i)
    \/ \E i \in ImportIds : process_csv_complete(i)
    \/ \E i \in ImportIds : process_csv_invalidate(i)
    \/ \E i \in ImportIds : _process_and_cleanup_unlink(i)
    \/ \E r \in Readers : get_symbols_now(r)
    \/ \E r \in Readers : get_symbols_check_data(r)
    \/ \E r \in Readers : get_symbols_check_expires(r)
    \/ \E r \in Readers : get_symbols_serve(r)
    \/ \E r \in Readers : get_symbols_aggregate(r)
    \/ \E r \in Readers : get_symbols_store_data(r)
    \/ \E r \in Readers : get_symbols_store_expires(r)
    \/ Tick

\* No call has been served yet: the cache is as the module initializes it.
InitCache == Init /\ symbols_cache = None

SpecCache == InitCache /\ [][NextCache]_vars

(***************************************************************************)
(* Strategy runs (routers/backtest.py, services/backtest_engine.py): the   *)
(* router validates the params, the engine has fetched the prepared price  *)
(* series and dispatches on the strategy. Buy & Hold is one vectorised     *)
(* step; the other strategies take one action per bar, the body of their   *)
(* loop.                                                                   *)
(***************************************************************************)
\* DCAParams(**params) and the like: the schema of the strategy admits the params.
ParamsParse(b) ==
    CASE b.strategy = "buy_and_hold" -> TRUE
      [] b.strategy = "dca" -> b.params \in DCAParams
      [] b.strategy = "ma_crossover" -> b.params \in MACrossoverParams
      [] b.strategy = "rsi" -> b.params \in RSIParams
      [] b.strategy = "bollinger_bands" -> b.params \in BollingerBandsParams

\* What _validate_strategy_params refuses: DCA and MA Crossover params that do not
\* parse, and short_window >= long_window.
InvalidStrategyParams(b) ==
    \/ b.strategy = "dca" /\ ~ ParamsParse(b)
    \/ /\ b.strategy = "ma_crossover"
       /\ ~ ParamsParse(b) \/ b.params.short_window >= b.params.long_window

\* The minimum-data guards of run_backtest.
TooFewBars(b) ==
    \/ b.strategy = "ma_crossover" /\ Len(b.prices) < b.params.long_window
    \/ b.strategy = "rsi" /\ Len(b.prices) < b.params.rsi_period * 3
    \/ b.strategy = "bollinger_bands" /\ Len(b.prices) < b.params.bb_window * 2

\* raise HTTPException(status_code=...)
Rejected(b, status_code) == [b EXCEPT !.pc = "rejected", !.status = status_code]

\* An exception that no handler catches: the server answers 500.
Crashed(b) == [b EXCEPT !.pc = "crashed", !.status = 500]

\* A request as it reaches its router.
Requested(req) ==
    [StartRun([req EXCEPT !.initial_capital = RInt(@)]) EXCEPT !.pc = "requested"]

\* The router validates the strategy params before it calls the engine (all three
\* endpoints).
_validate_strategy_params ==
    /\ bt.pc = "requested"
    /\ bt' = IF InvalidStrategyParams(bt) THEN Rejected(bt, 422)
             ELSE [bt EXCEPT !.pc = "validated"]
    /\ UNCHANGED <<imports, stock_prices, symbols_cache, file, task, del, recovery, tmp_path,
                   expires_at, hist, clock, reader, snap_hist>>

\* run_backtest up to the dispatch: the series has two bars or more, the params
\* parse, the minimum-data guard of the strategy passes.
run_backtest ==
    /\ bt.pc = "validated" /\ bt.path = "single"
    /\ bt' = IF Len(bt.prices) < 2 THEN Rejected(bt, 422)
             ELSE IF ~ ParamsParse(bt) THEN Crashed(bt)
             ELSE IF TooFewBars(bt) THEN Rejected(bt, 422)
             ELSE [bt EXCEPT !.pc = "run"]
    /\ UNCHANGED <<imports, stock_prices, symbols_cache, file, task, del, recovery, tmp_path,
                   expires_at, hist, clock, reader, snap_hist>>

\* run_compare and _run_single_strategy up to the dispatch.
_run_single_strategy ==
    /\ bt.pc = "validated" /\ bt.path = "compare"
    /\ bt' = IF Len(bt.prices) < 2 THEN Rejected(bt, 422)
             ELSE IF ~ ParamsParse(bt) THEN Crashed(bt)
             ELSE [bt EXCEPT !.pc = "run"]
    /\ UNCHANGED <<imports, stock_prices, symbols_cache, file, task, del, recovery, tmp_path,
                   expires_at, hist, clock, reader, snap_hist>>

\* run_one_holding of run_portfolio_backtest up to the dispatch, on the whole common
\* series or on the bars of one rebalancing period.
run_one_holding ==
    /\ bt.pc = "validated" /\ bt.path = "portfolio"
    /\ bt' = IF ~ ParamsParse(bt) THEN Crashed(bt)
             ELSE [bt EXCEPT !.pc = "run"]
    /\ UNCHANGED <<imports, stock_prices, symbols_cache, file, task, del, recovery, tmp_path,
                   expires_at, hist, clock, reader, snap_hist>>

\* Variant: the position is sold on the last bar.
_run_buy_and_hold_exits ==
    /\ bt.pc = "run" /\ bt.strategy = "buy_and_hold"
    /\ LET n == Len(bt.prices)
           t0_price == RInt(bt.prices[1])
           shares == RDiv(bt.initial_capital, t0_price)
           proceeds == RMul(shares, RInt(bt.prices[n]))
       IN  bt' = [bt EXCEPT
                     !.pc = "done", !.i = n, !.shares = RZero, !.cash = proceeds,
                     !.trades = << TradeRecord(1, "BUY", t0_price, shares, RZero,
                                               RMul(shares, t0_price)),
                                   TradeRecord(n, "SELL", RInt(bt.prices[n]), shares, proceeds,
                                               proceeds) >>,
                     !.equity = [k \in 1 .. n |-> RMul(RInt(bt.prices[k]), shares)]]
    /\ UNCHANGED <<imports, stock_prices, symbols_cache, file, task, del, recovery, tmp_path,
                   expires_at, hist, clock, reader, snap_hist>>

\* _run_buy_and_hold, one vectorised step.
_run_buy_and_hold ==
    /\ bt.pc = "run" /\ bt.strategy = "buy_and_hold"
    /\ bt' = _run_buy_and_hold_result(bt)
    /\ UNCHANGED <<imports, stock_prices, symbols_cache, file, task, del, recovery, tmp_path,
                   expires_at, hist, clock, reader, snap_hist>>

\* Variant: the first injection is left out of total_injected.
_run_dca_bar_uncounted_first ==
    /\ bt.pc = "run" /\ bt.strategy = "dca" /\ bt.i < Len(bt.prices)
    /\ LET k == bt.i + 1
           price_f == RInt(bt.prices[k])
           new_shares == RDiv(RInt(bt.params.amount), price_f)
           shares == RAdd(bt.shares, new_shares)
           b1 == IF invest_now(bt, k)
                 THEN [bt EXCEPT
                          !.shares = shares,
                          !.total_injected =
                              IF bt.last_invest_date = None THEN @
                              ELSE RAdd(@, RInt(bt.params.amount)),
                          !.last_invest_date = Some(k),
                          !.trades = Append(@, TradeRecord(k, "BUY", price_f, new_shares, RZero,
                                                           RMul(shares, price_f)))]
                 ELSE bt
       IN  bt' = [b1 EXCEPT !.equity = Append(@, RMul(b1.shares, price_f)),
                            !.i = k,
                            !.pc = IF k = Len(bt.prices) THEN "done" ELSE "run"]
    /\ UNCHANGED <<imports, stock_prices, symbols_cache, file, task, del, recovery, tmp_path,
                   expires_at, hist, clock, reader, snap_hist>>

\* _run_dca, one bar.
_run_dca_bar ==
    /\ bt.pc = "run" /\ bt.strategy = "dca" /\ bt.i < Len(bt.prices)
    /\ bt' = _run_dca_body(bt, bt.i + 1)
    /\ UNCHANGED <<imports, stock_prices, symbols_cache, file, task, del, recovery, tmp_path,
                   expires_at, hist, clock, reader, snap_hist>>

\* _run_ma_crossover, one bar.
_run_ma_crossover_bar ==
    /\ bt.pc = "run" /\ bt.strategy = "ma_crossover" /\ bt.i < Len(bt.prices)
    /\ bt' = _run_ma_crossover_body(bt, bt.i + 1)
    /\ UNCHANGED <<imports, stock_prices, symbols_cache, file, task, del, recovery, tmp_path,
                   expires_at, hist, clock, reader, snap_hist>>

\* _run_rsi, one bar.
_run_rsi_bar ==
    /\ bt.pc = "run" /\ bt.strategy = "rsi" /\ bt.i < Len(bt.prices)
    /\ bt' = _run_rsi_body(bt, bt.i + 1)
    /\ UNCHANGED <<imports, stock_prices, symbols_cache, file, task, del, recovery, tmp_path,
                   expires_at, hist, clock, reader, snap_hist>>

\* _run_bollinger_bands, one bar.
_run_bollinger_bands_bar ==
    /\ bt.pc = "run" /\ bt.strategy = "bollinger_bands" /\ bt.i < Len(bt.prices)
    /\ bt' = _run_bollinger_bands_body(bt, bt.i + 1)
    /\ UNCHANGED <<imports, stock_prices, symbols_cache, file, task, del, recovery, tmp_path,
                   expires_at, hist, clock, reader, snap_hist>>

\* A backtest has been requested on an idle server.
InitBacktest ==
    /\ imports = << >>
    /\ stock_prices = {}
    /\ symbols_cache = None
    /\ file = [i \in ImportIds |-> FileEmpty]
    /\ task = [i \in ImportIds |-> IdleTask]
    /\ del = [i \in ImportIds |-> "none"]
    /\ recovery = RecoveryDone
    /\ tmp_path = [i \in ImportIds |-> FALSE]
    /\ hist = [i \in ImportIds |-> NoHistory]
    /\ expires_at = 0
    /\ clock = 0
    /\ reader = [r \in Readers |-> IdleReader]
    /\ bt \in {Requested(req) : req \in Requests}
    /\ snap_hist = NoSnapshots

NextBacktest ==
    \/ _validate_strategy_params
    \/ run_backtest
    \/ _run_single_strategy
    \/ run_one_holding
    \/ _run_buy_and_hold
    \/ _run_dca_bar
    \/ _run_ma_crossover_bar
    \/ _run_rsi_bar
    \/ _run_bollinger_bands_bar

SpecBacktest == InitBacktest /\ [][NextBacktest]_vars

\* A backtest over any prices that ingestion has stored (DCA, with its longer
\* series, over those of absolute value 1).
InitIngested ==
    /\ imports = << >>
    /\ stock_prices = {}
    /\ symbols_cache = None
    /\ file = [i \in ImportIds |-> FileEmpty]
    /\ task = [i \in ImportIds |-> IdleTask]
    /\ del = [i \in ImportIds |-> "none"]
    /\ recovery = RecoveryDone
    /\ tmp_path = [i \in ImportIds |-> FALSE]
    /\ hist = [i \in ImportIds |-> NoHistory]
    /\ expires_at = 0
    /\ clock = 0
    /\ reader = [r \in Readers |-> IdleReader]
    /\ bt \in {Requested(req) :
                  req \in RequestsOver(IngestedPriceLevels,
                                       {p \in IngestedPriceLevels : Abs(p) = 1})}
    /\ snap_hist = NoSnapshots

SpecIngested == InitIngested /\ [][NextBacktest]_vars

(***************************************************************************)
(* Portfolio backtests (run_portfolio_backtest). A date is a day number; a *)
(* price frame and an equity Series are sequences of rows in index order.  *)
(***************************************************************************)
\* Days of a fetched frame, at most.
MaxPortfolioLen == 4

\* request.holdings: symbols and weights summing to 1.
Holdings ==
    << [symbol |-> "A", weight |-> <<1, 3>>], [symbol |-> "B", weight |-> <<2, 3>>] >>

HoldingSymbols == {Holdings[h].symbol : h \in DOMAIN Holdings}

\* _fetch_prices: a daily frame from the first stored day of the symbol to the last.
FetchedFrames(first) ==
    UNION {{[k \in 1 .. n |-> [date |-> first + k - 1, adj_close |-> adj[k]]]
            : adj \in [1 .. n -> DcaPriceLevels]}
           : n \in 2 .. MaxPortfolioLen}

\* The frames of the symbols of a request: the data of B starts a day after that
\* of A.
RequestFrames == {[A |-> a, B |-> b] : a \in FetchedFrames(1), b \in FetchedFrames(2)}

\* The calendar of the date range: day 4 is the first of a month, which starts a
\* quarter (1 April) or not (1 May).
Calendars == [month_start : {4}, quarter_start : BOOLEAN]

\* The strategy applied to all holdings, with its params.
PortfolioStrategies ==
    { [strategy |-> "buy_and_hold", params |-> << >>],
      [strategy |-> "dca", params |-> [interval |-> "weekly", amount |-> 6]],
      [strategy |-> "ma_crossover", params |-> [short_window |-> 1, long_window |-> 2]],
      [strategy |-> "rsi", params |-> [rsi_period |-> 2, oversold |-> 30, overbought |-> 70]],
      [strategy |-> "bollinger_bands", params |-> [bb_window |-> 2, bb_std |-> <<1, 2>>]] }

\* PortfolioBacktestRequest, with the frames the store holds for its symbols.
PortfolioRequests ==
    [cfg : PortfolioStrategies, initial_capital : Capitals,
     frames : RequestFrames,
     rebalance : {FALSE}, rebalance_interval : {"monthly"}, calendar : {CHOOSE c \in Calendars : TRUE}]
    \cup [cfg : PortfolioStrategies, initial_capital : Capitals,
          frames : RequestFrames,
          rebalance : {TRUE}, rebalance_interval : {"monthly", "quarterly"},
          calendar : Calendars]

\* df.index
Index(df) == [k \in DOMAIN df |-> df[k].date]

IndexSet(df) == {df[k].date : k \in DOMAIN df}

\* Index.intersection
intersection(a, b) == SelectSeq(a, LAMBDA d : \E j \in DOMAIN b : b[j] = d)

\* The strict intersection of the indexes of all frames, in the order of the loop.
RECURSIVE common_index_of(_, _)
common_index_of(all_prices, h) ==
    IF h = 1 THEN Index(all_prices[Holdings[1].symbol])
    ELSE intersection(common_index_of(all_prices, h - 1), Index(all_prices[Holdings[h].symbol]))

\* Variant: the frame is not cut to the index.
loc_all(df, index) == df

\* df.loc[index]
loc(df, index) == SelectSeq(df, LAMBDA row : \E j \in DOMAIN index : index[j] = row.date)

\* A set of days as an ascending sequence.
RECURSIVE sorted(_)
sorted(S) ==
    IF S = {} THEN << >>
    ELSE LET m == CHOOSE x \in S : \A y \in S : x <= y IN <<m>> \o sorted(S \ {m})

\* pd.Series(values, index=index)
Series(values, index) == [k \in DOMAIN index |-> [date |-> index[k], value |-> values[k]]]

ValueAt(series, d) == series[CHOOSE k \in DOMAIN series : series[k].date = d].value

\* series + series: aligned on the union of the indexes, NaN where one has no value.
series_add(a, b) ==
    LET index == sorted(IndexSet(a) \cup IndexSet(b))
    IN  [k \in DOMAIN index |->
            [date |-> index[k],
             value |-> IF index[k] \in IndexSet(a) \cap IndexSet(b)
                       THEN RAdd(ValueAt(a, index[k]), ValueAt(b, index[k]))
                       ELSE "NaN"]]

\* sum(holding_equities.values()), over the holdings h .. last
RECURSIVE sum_series(_, _)
sum_series(equities, h) ==
    IF h = Len(Holdings) THEN equities[Holdings[h].symbol]
    ELSE series_add(equities[Holdings[h].symbol], sum_series(equities, h + 1))

\* sum(values.values()) of floats
RECURSIVE sum_values(_, _)
sum_values(values, h) ==
    IF h > Len(Holdings) THEN RZero
    ELSE RAdd(values[Holdings[h].symbol], sum_values(values, h + 1))

\* run_one_holding: the equity Series, the trades and the total_invested of one
\* strategy run over a frame with the capital given.
run_one_holding_result(cfg, prices_df, capital) ==
    LET locals == StartRun([strategy |-> cfg.strategy, params |-> cfg.params,
                            initial_capital |-> capital, path |-> "portfolio",
                            prices |-> [k \in DOMAIN prices_df |-> prices_df[k].adj_close]])
    IN  CHOOSE result \in
            {[eq |-> Series(r.equity, Index(prices_df)),
              tr |-> [j \in DOMAIN r.trades |-> [r.trades[j] EXCEPT !.date = prices_df[@].date]],
              total_inv |-> IF cfg.strategy = "dca" THEN r.total_injected ELSE capital]
             : r \in {run_strategy(locals)}} : TRUE

\* pd.date_range(start, end, freq="MS" or "QS"), with the start of the range
period_starts(common_index, interval, calendar) ==
    LET first == common_index[1]
        last == common_index[Len(common_index)]
    IN  {first} \cup {d \in first .. last :
                         /\ d = calendar.month_start
                         /\ interval = "monthly" \/ calendar.quarter_start}

\* A portfolio request as run_portfolio_backtest receives it.
PortfolioRequested(req) ==
    [pc |-> "fetch", status |-> 200, request |-> req,
     all_prices |-> req.frames, common_index |-> << >>,
     h |-> 1, boundaries |-> << >>, period_idx |-> 1,
     current_capital |-> [sym \in HoldingSymbols |-> RZero],
     holding_equities |-> [sym \in HoldingSymbols |-> << >>],
     holding_trades |-> [sym \in HoldingSymbols |-> << >>],
     holding_total_invested |-> [sym \in HoldingSymbols |-> RZero],
     portfolio_equity |-> << >>, portfolio_total_invested |-> RZero]

\* Lines 729-760: every frame has two rows or more, the frames are cut to the
\* strict intersection of their dates, which has two dates or more.
run_portfolio_backtest_fetch ==
    /\ bt.pc = "fetch"
    /\ LET common_index == common_index_of(bt.all_prices, Len(Holdings))
           weight(sym) == Holdings[CHOOSE h \in DOMAIN Holdings : Holdings[h].symbol = sym].weight
       IN  bt' = IF \E sym \in HoldingSymbols : Len(bt.all_prices[sym]) < 2
                 THEN Rejected(bt, 422)
                 ELSE IF Len(common_index) < 2 THEN Rejected(bt, 422)
                 ELSE [bt EXCEPT
                          !.pc = IF bt.request.rebalance THEN "periods" ELSE "holdings",
                          !.common_index = common_index,
                          !.all_prices = [sym \in HoldingSymbols |-> loc(@[sym], common_index)],
                          !.boundaries =
                              IF bt.request.rebalance
                              THEN sorted(period_starts(common_index,
                                                        bt.request.rebalance_interval,
                                                        bt.request.calendar)
                                          \cup {common_index[Len(common_index)] + 1})
                              ELSE << >>,
                          !.current_capital =
                              [sym \in HoldingSymbols |->
                                  RMul(RInt(bt.request.initial_capital), weight(sym))]]
    /\ UNCHANGED <<imports, stock_prices, symbols_cache, file, task, del, recovery, tmp_path,
                   expires_at, hist, clock, reader, snap_hist>>

\* Lines 794-800: without rebalancing, one run per holding over the common dates.
run_portfolio_backtest_holding ==
    /\ bt.pc = "holdings" /\ bt.h <= Len(Holdings)
    /\ LET sym == Holdings[bt.h].symbol
           allocated == RMul(RInt(bt.request.initial_capital), Holdings[bt.h].weight)
       IN  \E r \in {run_one_holding_result(bt.request.cfg, bt.all_prices[sym], allocated)} :
               bt' = [bt EXCEPT !.holding_equities[sym] = r.eq,
                                !.holding_trades[sym] = r.tr,
                                !.holding_total_invested[sym] = r.total_inv,
                                !.h = @ + 1,
                                !.pc = IF bt.h = Len(Holdings) THEN "results" ELSE "holdings"]
    /\ UNCHANGED <<imports, stock_prices, symbols_cache, file, task, del, recovery, tmp_path,
                   expires_at, hist, clock, reader, snap_hist>>

\* Variant: the value a holding started the period with is carried over.
iloc_first(eq) == eq[1].value

\* float(eq.iloc[-1])
iloc_last(eq) == eq[Len(eq)].value

\* The state after the holdings h .. last of one rebalancing period have run.
RECURSIVE period_holdings(_, _, _)
period_holdings(b, sub_index, h) ==
    IF h > Len(Holdings) THEN b
    ELSE LET sym == Holdings[h].symbol
         IN  CHOOSE out \in
                 {period_holdings(b1, sub_index, h + 1) : b1 \in
                     {[b EXCEPT !.holding_equities[sym] = @ \o r.eq,
                                !.holding_trades[sym] = @ \o r.tr,
                                !.holding_total_invested[sym] = RAdd(@, r.total_inv),
                                !.current_capital[sym] = iloc_last(r.eq)]
                      : r \in {run_one_holding_result(b.request.cfg,
                                                      loc(b.all_prices[sym], sub_index),
                                                      b.current_capital[sym])}}} : TRUE

\* Variant: every holding carries its own ending value into the next period.
redistribute_nothing(b) == b

\* Lines 846-849: the ending values are pooled and split by the target weights.
redistribute(b) ==
    LET total_value == sum_values(b.current_capital, 1)
    IN  [b EXCEPT !.current_capital =
            [sym \in HoldingSymbols |->
                RMul(total_value,
                     Holdings[CHOOSE h \in DOMAIN Holdings : Holdings[h].symbol = sym].weight)]]

\* Lines 832-859: one rebalancing period. After the first period the capital is
\* redistributed by weight; then every holding runs over the dates of the period.
run_portfolio_backtest_period ==
    /\ bt.pc = "periods" /\ bt.period_idx < Len(bt.boundaries)
    /\ LET period_start == bt.boundaries[bt.period_idx]
           period_end == bt.boundaries[bt.period_idx + 1] - 1
           sub_index == SelectSeq(bt.common_index,
                                  LAMBDA d : d >= period_start /\ d <= period_end)
           b1 == IF bt.period_idx > 1 THEN redistribute(bt) ELSE bt
       IN  \E b2 \in {IF Len(sub_index) < 1 THEN bt ELSE period_holdings(b1, sub_index, 1)} :
               bt' = [b2 EXCEPT !.period_idx = @ + 1,
                                !.pc = IF bt.period_idx + 1 = Len(bt.boundaries) THEN "results"
                                       ELSE "periods"]
    /\ UNCHANGED <<imports, stock_prices, symbols_cache, file, task, del, recovery, tmp_path,
                   expires_at, hist, clock, reader, snap_hist>>

\* Lines 802 and 861-881: the holdings' curves are summed, and their total_invested.
run_portfolio_backtest_results ==
    /\ bt.pc = "results"
    /\ LET equities ==
               [sym \in HoldingSymbols |->
                   IF bt.holding_equities[sym] # << >> THEN bt.holding_equities[sym]
                   ELSE Series([k \in DOMAIN bt.common_index |->
                                   RMul(RInt(bt.request.initial_capital),
                                        Holdings[CHOOSE h \in DOMAIN Holdings :
                                                     Holdings[h].symbol = sym].weight)],
                               bt.common_index)]
       IN  bt' = [bt EXCEPT !.pc = "done",
                            !.holding_equities = equities,
                            !.portfolio_equity = sum_series(equities, 1),
                            !.portfolio_total_invested = sum_values(bt.holding_total_invested, 1)]
    /\ UNCHANGED <<imports, stock_prices, symbols_cache, file, task, del, recovery, tmp_path,
                   expires_at, hist, clock, reader, snap_hist>>

InitPortfolio ==
    /\ imports = << >>
    /\ stock_prices = {}
    /\ symbols_cache = None
    /\ file = [i \in ImportIds |-> FileEmpty]
    /\ task = [i \in ImportIds |-> IdleTask]
    /\ del = [i \in ImportIds |-> "none"]
    /\ recovery = RecoveryDone
    /\ tmp_path = [i \in ImportIds |-> FALSE]
    /\ hist = [i \in ImportIds |-> NoHistory]
    /\ expires_at = 0
    /\ clock = 0
    /\ reader = [r \in Readers |-> IdleReader]
    /\ bt \in {PortfolioRequested(req) : req \in PortfolioRequests}
    /\ snap_hist = NoSnapshots

NextPortfolio ==
    \/ run_portfolio_backtest_fetch
    \/ run_portfolio_backtest_holding
    \/ run_portfolio_backtest_period
    \/ run_portfolio_backtest_results

SpecPortfolio == InitPortfolio /\ [][NextPortfolio]_vars

(***************************************************************************)
(* _fetch_prices: the stored records of a symbol become a daily frame.     *)
(* A datetime counts half-days: 2 * d is midnight of day d, 2 * d + 1 its  *)
(* noon.                                                                   *)
(***************************************************************************)
\* Days on which the symbol has stored records, at most.
MaxFetchDays == 4

Datetimes == 2 .. 2 * MaxFetchDays + 1

\* The stock_prices documents of one symbol, as date -> adj_close: the unique
\* index (symbol, date) admits one document per datetime, and ingestion drops
\* the rows without an adj_close.
SymbolStores == UNION {[S -> DcaPriceLevels] : S \in SUBSET Datetimes}

\* date_to of the request, as datetime.fromisoformat reads it: a midnight.
DateTos == {2 * MaxFetchDays, 2 * MaxFetchDays + 2}

\* Series.dt.normalize(): the time of day is set to midnight.
normalize(t) == (t \div 2) * 2

\* Variant: of the rows of one date the last is kept.
drop_duplicates_keep_last(df) ==
    LET keep == sorted({k \in DOMAIN df : ~ \E j \in k + 1 .. Len(df) : df[j].date = df[k].date})
    IN  [i \in DOMAIN keep |-> df[keep[i]]]

\* df.drop_duplicates("date"): of the rows of one date the first is kept.
drop_duplicates(df) ==
    LET keep == sorted({k \in DOMAIN df : ~ \E j \in 1 .. k - 1 : df[j].date = df[k].date})
    IN  [i \in DOMAIN keep |-> df[keep[i]]]

\* Variant: a missing value is taken from the next row that has one.
bfill(df) ==
    [k \in DOMAIN df |->
        LET known == {j \in k .. Len(df) : df[j].adj_close # None}
        IN  IF known = {} THEN df[k]
            ELSE [df[k] EXCEPT !.adj_close = df[CHOOSE j \in known : \A m \in known : j <= m].adj_close]]

\* df.ffill(): a missing value (None) is taken from the last row before it that
\* has one.
ffill(df) ==
    [k \in DOMAIN df |->
        LET known == {j \in 1 .. k : df[j].adj_close # None}
        IN  IF known = {} THEN df[k]
            ELSE [df[k] EXCEPT !.adj_close = df[CHOOSE j \in known : \A m \in known : j >= m].adj_close]]

\* Lines 46-66: find and sort by date, normalize, drop duplicates, reindex onto
\* every day from the first to the last, forward-fill, drop what is still missing.
_fetch_prices(store, d_from, d_to) ==
    LET dates == sorted({t \in DOMAIN store : t >= d_from /\ t <= d_to})
        rows == [k \in DOMAIN dates |-> [date |-> normalize(dates[k]), adj_close |-> store[dates[k]]]]
        reindex(df) ==
            [k \in 1 .. ((df[Len(df)].date - df[1].date) \div 2) + 1 |->
                LET day == df[1].date + 2 * (k - 1)
                IN  [date |-> day,
                     adj_close |-> IF \E j \in DOMAIN df : df[j].date = day
                                   THEN Some(df[CHOOSE j \in DOMAIN df : df[j].date = day].adj_close)
                                   ELSE None]]
        dropna(df) ==
            LET kept == SelectSeq(df, LAMBDA row : row.adj_close # None)
            IN  [k \in DOMAIN kept |-> [date |-> kept[k].date, adj_close |-> kept[k].adj_close[1]]]
    IN  IF rows = << >> THEN << >>
        ELSE CHOOSE out \in {dropna(ffill(reindex(df))) : df \in {drop_duplicates(rows)}} : TRUE

\* One call of _fetch_prices for the symbol.
_fetch_prices_call ==
    /\ bt.pc = "fetch_prices"
    /\ bt' = [bt EXCEPT !.pc = "fetched",
                        !.df = _fetch_prices(bt.store, bt.date_from, bt.date_to)]
    /\ UNCHANGED <<imports, stock_prices, symbols_cache, file, task, del, recovery, tmp_path,
                   expires_at, hist, clock, reader, snap_hist>>

InitFetch ==
    /\ imports = << >>
    /\ stock_prices = {}
    /\ symbols_cache = None
    /\ file = [i \in ImportIds |-> FileEmpty]
    /\ task = [i \in ImportIds |-> IdleTask]
    /\ del = [i \in ImportIds |-> "none"]
    /\ recovery = RecoveryDone
    /\ tmp_path = [i \in ImportIds |-> FALSE]
    /\ hist = [i \in ImportIds |-> NoHistory]
    /\ expires_at = 0
    /\ clock = 0
    /\ reader = [r \in Readers |-> IdleReader]
    /\ bt \in [pc : {"fetch_prices"}, store : SymbolStores, date_from : {2}, date_to : DateTos,
               df : {<< >>}]
    /\ snap_hist = NoSnapshots

SpecFetch == InitFetch /\ [][_fetch_prices_call]_vars

(***************************************************************************)
(* _compute_metrics: time in market, and win rate and profit factor from   *)
(* the closed pairs of the trade log.                                      *)
(***************************************************************************)
\* Trades of the log handed to _compute_metrics, at most.
MaxTrades == 3

\* The dates of the equity curve, at most.
MaxEquityDates == 3

\* Any trade log: dates 1 .. 2, prices and share counts 1 .. 2.
MetricTrades ==
    {TradeRecord(d, a, RInt(p), RInt(n), RZero, RZero) :
        <<d, a, p, n>> \in (1 .. 2) \X {"BUY", "SELL"} \X (1 .. 2) \X (1 .. 2)}

TradeLogs == UNION {[1 .. n -> MetricTrades] : n \in 0 .. MaxTrades}

\* Variant: a date that carries a BUY and a SELL ends in the market.
in_market_on_sell_first(trades, d, before) ==
    LET after_sell == IF \E j \in DOMAIN trades : trades[j].action = "SELL" /\ trades[j].date = d
                      THEN FALSE ELSE before
    IN  IF \E j \in DOMAIN trades : trades[j].action = "BUY" /\ trades[j].date = d
        THEN TRUE ELSE after_sell

\* Lines 151-154: the flag after date d, given the flag before it.
in_market_on(trades, d, before) ==
    LET after_buy == IF \E j \in DOMAIN trades : trades[j].action = "BUY" /\ trades[j].date = d
                     THEN TRUE ELSE before
    IN  IF \E j \in DOMAIN trades : trades[j].action = "SELL" /\ trades[j].date = d
        THEN FALSE ELSE after_buy

\* Lines 144-156: the flag and the count of in-market days after the dates 1 .. d.
RECURSIVE in_market_walk(_, _)
in_market_walk(trades, d) ==
    IF d = 0 THEN [in_market |-> FALSE, in_market_days |-> 0]
    ELSE CHOOSE after \in
             {[in_market |-> in_market_on(trades, d, before.in_market),
               in_market_days |-> before.in_market_days
                                    + IF in_market_on(trades, d, before.in_market) THEN 1 ELSE 0]
              : before \in {in_market_walk(trades, d - 1)}} : TRUE

\* Lines 130-159
time_in_market(trades, total_days) ==
    IF \E j \in DOMAIN trades : trades[j].action = "BUY"
    THEN IF total_days > 0
         THEN Rat(in_market_walk(trades, total_days).in_market_days, total_days)
         ELSE RZero
    ELSE RZero

RMin(a, b) == IF RLess(b, a) THEN b ELSE a

\* x > 1e-9, for a fraction x
AboveEpsilon(x) == x[1] > 0 /\ (x[1] >= x[2] \/ x[1] * 1000000000 > x[2])

\* Variant: a SELL closes the newest open BUY.
pair_trade_lifo(b, t) ==
    IF t.action = "BUY"
    THEN [b EXCEPT !.buy_price_stack = Append(@, [price |-> t.price, shares |-> t.shares])]
    ELSE IF t.action = "SELL" /\ b.buy_price_stack # << >>
    THEN LET bought == b.buy_price_stack[Len(b.buy_price_stack)]
             pnl == RMul(RSub(t.price, bought.price), RMin(t.shares, bought.shares))
         IN  [b EXCEPT !.buy_price_stack = SubSeq(@, 1, Len(@) - 1),
                       !.total_closed = @ + 1,
                       !.wins = IF RLess(RZero, pnl) THEN @ + 1 ELSE @,
                       !.gross_profit = IF RLess(RZero, pnl) THEN RAdd(@, pnl) ELSE @,
                       !.gross_loss = IF RLess(RZero, pnl) THEN @ ELSE RSub(@, pnl)]
    ELSE b

\* Lines 171-182, for one trade: a BUY is queued, a SELL closes the oldest open BUY.
pair_trade(b, t) ==
    IF t.action = "BUY"
    THEN [b EXCEPT !.buy_price_stack = Append(@, [price |-> t.price, shares |-> t.shares])]
    ELSE IF t.action = "SELL" /\ b.buy_price_stack # << >>
    THEN LET bought == Head(b.buy_price_stack)
             pnl == RMul(RSub(t.price, bought.price), RMin(t.shares, bought.shares))
         IN  [b EXCEPT !.buy_price_stack = Tail(@),
                       !.total_closed = @ + 1,
                       !.wins = IF RLess(RZero, pnl) THEN @ + 1 ELSE @,
                       !.gross_profit = IF RLess(RZero, pnl) THEN RAdd(@, pnl) ELSE @,
                       !.gross_loss = IF RLess(RZero, pnl) THEN @ ELSE RSub(@, pnl)]
    ELSE b

\* The locals of _compute_metrics for a trade log and an equity curve of n dates.
MetricsCall(trades, n) ==
    [pc |-> "time_in_market", trades |-> trades, total_days |-> n,
     time_in_market |-> None, j |-> 0,
     buy_price_stack |-> << >>, gross_profit |-> RZero, gross_loss |-> RZero,
     wins |-> 0, total_closed |-> 0, win_rate |-> None, profit_factor |-> None]

_compute_metrics_time_in_market ==
    /\ bt.pc = "time_in_market"
    /\ bt' = [bt EXCEPT !.pc = "pairs",
                        !.time_in_market = Some(time_in_market(bt.trades, bt.total_days))]
    /\ UNCHANGED <<imports, stock_prices, symbols_cache, file, task, del, recovery, tmp_path,
                   expires_at, hist, clock, reader, snap_hist>>

\* One iteration of the loop over the trades.
_compute_metrics_pair ==
    /\ bt.pc = "pairs" /\ bt.j < Len(bt.trades)
    /\ bt' = [pair_trade(bt, bt.trades[bt.j + 1]) EXCEPT !.j = bt.j + 1]
    /\ UNCHANGED <<imports, stock_prices, symbols_cache, file, task, del, recovery, tmp_path,
                   expires_at, hist, clock, reader, snap_hist>>

\* Lines 184-186
_compute_metrics_ratios ==
    /\ bt.pc = "pairs" /\ bt.j = Len(bt.trades)
    /\ bt' = [bt EXCEPT
                 !.pc = "done",
                 !.win_rate = IF bt.total_closed > 0 THEN Some(Rat(bt.wins, bt.total_closed))
                              ELSE None,
                 !.profit_factor = IF bt.total_closed > 0 /\ AboveEpsilon(bt.gross_loss)
                                   THEN Some(RDiv(bt.gross_profit, bt.gross_loss))
                                   ELSE None]
    /\ UNCHANGED <<imports, stock_prices, symbols_cache, file, task, del, recovery, tmp_path,
                   expires_at, hist, clock, reader, snap_hist>>

InitMetrics ==
    /\ imports = << >>
    /\ stock_prices = {}
    /\ symbols_cache = None
    /\ file = [i \in ImportIds |-> FileEmpty]
    /\ task = [i \in ImportIds |-> IdleTask]
    /\ del = [i \in ImportIds |-> "none"]
    /\ recovery = RecoveryDone
    /\ tmp_path = [i \in ImportIds |-> FALSE]
    /\ hist = [i \in ImportIds |-> NoHistory]
    /\ expires_at = 0
    /\ clock = 0
    /\ reader = [r \in Readers |-> IdleReader]
    /\ bt \in {MetricsCall(trades, n) : trades \in TradeLogs, n \in 1 .. MaxEquityDates}
    /\ snap_hist = NoSnapshots

NextMetrics ==
    \/ _compute_metrics_time_in_market
    \/ _compute_metrics_pair
    \/ _compute_metrics_ratios

SpecMetrics == InitMetrics /\ [][NextMetrics]_vars

(***************************************************************************)
(* Startup recovery: cleanup_orphaned_prices (database.py), run by         *)
(* lifespan before any request is served, on whatever the last run left.   *)
(***************************************************************************)
Statuses == {"pending", "processing", "completed", "failed", "deleting"}

\* Variant: pending imports are not treated as stuck.
StuckStatusesWithoutPending == {"processing", "deleting"}

\* {"status": {"$in": ["processing", "deleting", "pending"]}}
StuckStatuses == {"processing", "deleting", "pending"}

\* The documents a previous run can have left: two keys, any owner.
LeftoverDocuments ==
    {[symbol |-> Str(sym), date |-> "2020-01-01", close |-> "10.0", adj_close |-> "12.5",
      import_id |-> i] : sym \in {"A", "B"}, i \in ImportIds}

InitRecovery ==
    /\ imports \in UNION {[S -> {[NewImport EXCEPT !.status = st] : st \in Statuses}] :
                            S \in SUBSET ImportIds}
    /\ stock_prices \in {D \in SUBSET LeftoverDocuments :
                            \A p, q \in D : DocKey(p) = DocKey(q) => p = q}
    /\ symbols_cache = None
    /\ file = [i \in ImportIds |-> FileEmpty]
    /\ task = [i \in ImportIds |-> IdleTask]
    /\ del = [i \in ImportIds |-> "none"]
    /\ recovery = [RecoveryDone EXCEPT !.pc = "find_stuck"]
    /\ tmp_path = [i \in ImportIds |-> FALSE]
    /\ hist = [i \in ImportIds |-> NoHistory]
    /\ expires_at = IF symbols_cache = None THEN 0 ELSE SYMBOLS_CACHE_TTL
    /\ clock = 0
    /\ reader = [r \in Readers |-> IdleReader]
    /\ bt = NoBacktest
    /\ snap_hist = NoSnapshots

\* stuck = imports_collection.find({"status": {"$in": [...]}})
cleanup_find_stuck ==
    /\ recovery.pc = "find_stuck"
    /\ LET stuck_ids == {i \in DOMAIN imports : imports[i].status \in StuckStatuses}
       IN  recovery' = [recovery EXCEPT
                           !.stuck_ids = stuck_ids,
                           !.pc = IF stuck_ids # {} THEN "delete_stuck_prices" ELSE "distinct"]
    /\ UNCHANGED <<imports, stock_prices, symbols_cache, file, task, del, hist, tmp_path, expires_at, callVars>>

\* stock_prices_collection.delete_many({"import_id": {"$in": stuck_ids}})
cleanup_delete_stuck_prices ==
    /\ recovery.pc = "delete_stuck_prices"
    /\ stock_prices' = {p \in stock_prices : p.import_id \notin recovery.stuck_ids}
    /\ recovery' = [recovery EXCEPT !.pc = "delete_stuck_imports"]
    /\ UNCHANGED <<imports, symbols_cache, file, task, del, hist, tmp_path, expires_at, callVars>>

\* imports_collection.delete_many({"_id": {"$in": stuck_ids}})
cleanup_delete_stuck_imports ==
    /\ recovery.pc = "delete_stuck_imports"
    /\ imports' = [j \in DOMAIN imports \ recovery.stuck_ids |-> imports[j]]
    /\ recovery' = [recovery EXCEPT !.pc = "distinct"]
    /\ UNCHANGED <<stock_prices, symbols_cache, file, task, del, hist, tmp_path, expires_at, callVars>>

\* price_import_ids = distinct("import_id"); return if there is none.
cleanup_distinct ==
    /\ recovery.pc = "distinct"
    /\ LET price_import_ids == {p.import_id : p \in stock_prices}
       IN  recovery' = [recovery EXCEPT
                           !.price_import_ids = price_import_ids,
                           !.pc = IF price_import_ids = {} THEN "done" ELSE "find_existing"]
    /\ UNCHANGED <<imports, stock_prices, symbols_cache, file, task, del, hist, tmp_path, expires_at, callVars>>

\* existing = imports_collection.find({"_id": {"$in": price_import_ids}})
cleanup_find_existing ==
    /\ recovery.pc = "find_existing"
    /\ LET existing_ids == recovery.price_import_ids \cap DOMAIN imports
           orphaned_ids == recovery.price_import_ids \ existing_ids
       IN  recovery' = [recovery EXCEPT
                           !.orphaned_ids = orphaned_ids,
                           !.pc = IF orphaned_ids # {} THEN "delete_orphans" ELSE "done"]
    /\ UNCHANGED <<imports, stock_prices, symbols_cache, file, task, del, hist, tmp_path, expires_at, callVars>>

\* stock_prices_collection.delete_many({"import_id": {"$in": orphaned_ids}})
cleanup_delete_orphans ==
    /\ recovery.pc = "delete_orphans"
    /\ stock_prices' = {p \in stock_prices : p.import_id \notin recovery.orphaned_ids}
    /\ recovery' = [recovery EXCEPT !.pc = "done"]
    /\ UNCHANGED <<imports, symbols_cache, file, task, del, hist, tmp_path, expires_at, callVars>>

NextRecovery ==
    \/ cleanup_find_stuck
    \/ cleanup_delete_stuck_prices
    \/ cleanup_delete_stuck_imports
    \/ cleanup_distinct
    \/ cleanup_find_existing
    \/ cleanup_delete_orphans

SpecRecovery == InitRecovery /\ [][NextRecovery]_vars

\* A restart: lifespan runs cleanup_orphaned_prices to its end, then requests are
\* served. An upload receives a fresh id, one that no document left by the last
\* run carries; the second import is one the last run left.
NextRestart ==
    \/ NextRecovery
    \/ recovery.pc = "done" /\ 1 \notin DOMAIN imports /\ \E f \in Files : upload_csv(1, f)
    \/ recovery.pc = "done" /\ _process_and_cleanup(1)
    \/ recovery.pc = "done" /\ \E i \in ImportIds : remove_import(i)
    \/ recovery.pc = "done" /\ \E i \in ImportIds : delete_import(i)

SpecRestart == InitRecovery /\ [][NextRestart]_vars

(***************************************************************************)
(* Properties                                                              *)
(***************************************************************************)
StatusOf(imps, i) == IF i \in DOMAIN imps THEN imps[i].status ELSE "absent"

OwnedBy(store, i) == {p \in store : p.import_id = i}

\* The import is completed and no DELETE was ever requested for it.
CompletedAndKept(i) == StatusOf(imports, i) = "completed" /\ del[i] = "none"

\* The header is accepted and the reader can tokenize every line.
ReadableFile(f) ==
    /\ f.columns # << >>
    /\ _validate_header_ok(f.columns)
    /\ \A k \in 1 .. Len(f.lines) : f.lines[k].kind # "malformed"

\* Every line after the header is a valid data row and the keys are pairwise distinct.
AllRowsValidDistinct(f) ==
    /\ ReadableFile(f)
    /\ \A k \in 1 .. Len(f.lines) :
           f.lines[k].kind = "row" /\ Survives(Document(f.lines[k], 0))
    /\ Cardinality(FileKeys(f)) = Len(f.lines)

\* C1: once an ImportRecord's status is deleting, no later write changes it to
\* anything else; the record stays deleting until it is removed.
C1_DeletingIsTerminal ==
    [][\A i \in ImportIds :
          StatusOf(imports, i) = "deleting"
              => StatusOf(imports', i) \in {"deleting", "absent"}]_vars

StatusSteps ==
    {<<"absent", "pending">>, <<"pending", "processing">>,
     <<"processing", "completed">>, <<"processing", "failed">>}

\* C2: while no DELETE has been requested for an import, its status only moves
\* absent -> pending -> processing -> completed or failed, and completed and
\* failed are never left.
C2_StatusMachine ==
    [][\A i \in ImportIds :
          del'[i] = "none"
              => \/ StatusOf(imports', i) = StatusOf(imports, i)
                 \/ <<StatusOf(imports, i), StatusOf(imports', i)>> \in StatusSteps]_vars

\* Two imports, never deleted, have run to their end: one completed, one failed.
C2_Witness ==
    \E i, j \in ImportIds :
        /\ del[i] = "none" /\ task[i].pc = "done" /\ StatusOf(imports, i) = "completed"
        /\ del[j] = "none" /\ task[j].pc = "done" /\ StatusOf(imports, j) = "failed"

\* C3: the store never holds two PriceRecords with the same (symbol, date), and an
\* ingestion of a readable file that was not deleted ends completed, whatever
\* duplicates its inserts met.
C3_UniqueKeys ==
    /\ \A p, q \in stock_prices : DocKey(p) = DocKey(q) => p = q
    /\ \A j \in ImportIds :
           task[j].pc = "done" /\ del[j] = "none" /\ ReadableFile(file[j])
               => StatusOf(imports, j) = "completed"

\* Two concurrent ingestions of the same file have both completed and each won
\* some of the keys.
C3_Witness ==
    \E i, j \in ImportIds :
        /\ i # j /\ file[i] = FileClean /\ file[j] = FileClean
        /\ CompletedAndKept(i) /\ CompletedAndKept(j)
        /\ imports[i].processed_rows > 0 /\ imports[j].processed_rows > 0
        /\ Cardinality(stock_prices) = 3

\* C4: once delete_import(id) has finished, no PriceRecord with import_id = id
\* exists and the ImportRecord id is absent.
C4_DeleteLeavesNothing ==
    \A i \in ImportIds :
        del[i] = "done" => i \notin DOMAIN imports /\ OwnedBy(stock_prices, i) = {}

\* C5: after startup recovery no ImportRecord is pending, processing or deleting
\* and every PriceRecord's import_id refers to an existing ImportRecord.
C5_RecoveryCleans ==
    recovery.pc = "done"
        => /\ \A i \in DOMAIN imports :
                  imports[i].status \notin {"pending", "processing", "deleting"}
           /\ \A p \in stock_prices : p.import_id \in DOMAIN imports

\* Recovery has finished after removing stuck imports and orphaned prices.
C5_Witness ==
    recovery.pc = "done" /\ recovery.stuck_ids # {} /\ recovery.orphaned_ids # {}

\* C6: a completed ImportRecord's symbols_count is the number of distinct symbols
\* among the PriceRecords stored with its import_id.
C6_SymbolsCountMatches ==
    \A i \in DOMAIN imports :
        imports[i].status = "completed"
            => imports[i].symbols_count = Cardinality(distinct_symbols(stock_prices, i))

\* C7: once total_rows is persisted it is the number of lines after the header,
\* and processed_rows (persisted or still local) never exceeds it.
C7_ProcessedAtMostTotal ==
    \A i \in DOMAIN imports :
        task[i].pc \notin {"none", "scheduled", "count"}
            => /\ imports[i].total_rows = Len(file[i].lines)
               /\ imports[i].processed_rows <= imports[i].total_rows
               /\ task[i].processed <= imports[i].total_rows

\* A completed import that inserted some, but not all, of its file's lines.
C7_Witness ==
    \E i \in DOMAIN imports :
        /\ imports[i].status = "completed"
        /\ 0 < imports[i].processed_rows
        /\ imports[i].processed_rows < imports[i].total_rows

\* The upload j is a re-upload: an import of the same file is completed and kept,
\* and every key of the file was in the store, owned by a completed and kept
\* import, when j was uploaded.
IsReupload(j) ==
    /\ task[j].pc = "done" /\ del[j] = "none"
    /\ FileKeys(file[j]) # {}
    /\ \E i \in ImportIds \ {j} : file[i] = file[j] /\ CompletedAndKept(i)
    /\ \A k \in FileKeys(file[j]) :
           \E p \in hist[j].seen : DocKey(p) = k /\ CompletedAndKept(p.import_id)

\* C8: a re-upload ends completed with processed_rows = 0, owns no PriceRecord, and
\* the PriceRecords of the file's keys are those found at upload, owners included.
C8_ReuploadInsertsNothing ==
    \A j \in ImportIds :
        IsReupload(j)
            => /\ StatusOf(imports, j) = "completed"
               /\ imports[j].processed_rows = 0
               /\ OwnedBy(stock_prices, j) = {}
               /\ {p \in stock_prices : DocKey(p) \in FileKeys(file[j])} = hist[j].seen

C8_Witness == \E j \in ImportIds : IsReupload(j) /\ Cardinality(hist[j].seen) > 1

\* The upload j has run to its end undeleted, its file is all valid rows with
\* distinct keys, and every other upload sharing a key with it was an import of
\* the same file whose delete_import had finished before j's upload.
IsUploadAfterDelete(j) ==
    /\ task[j].pc = "done" /\ del[j] = "none"
    /\ AllRowsValidDistinct(file[j])
    /\ \A i \in ImportIds \ {j} :
           task[i].pc # "none"
               => \/ i \in hist[j].settled /\ file[i] = file[j]
                  \/ FileKeys(file[i]) \cap FileKeys(file[j]) = {}

\* C9: upload, delete, upload again: the second import is completed with
\* processed_rows = total_rows.
C9_DeleteThenReupload ==
    \A j \in ImportIds :
        IsUploadAfterDelete(j)
            => /\ StatusOf(imports, j) = "completed"
               /\ imports[j].total_rows = Len(file[j].lines)
               /\ imports[j].processed_rows = imports[j].total_rows

\* C10: cancellation is observed at every chunk boundary, so at most one chunk is
\* inserted between the DELETE request and the ingestion noticing it.
C10_AtMostOneChunkAfterDelete ==
    \A i \in ImportIds : hist[i].chunks_after_delete <= 1

\* The trimmed column names of the file are not the expected sequence (a file of
\* zero bytes has none).
BadHeader(f) == ~ _validate_header_ok(f.columns)

\* C11: an import whose file has a bad header never inserts a PriceRecord, and,
\* unless a DELETE was requested for it, ends failed with a non-null error.
C11_BadHeaderFails ==
    \A i \in ImportIds :
        task[i].pc # "none" /\ BadHeader(file[i])
            => /\ OwnedBy(stock_prices, i) = {}
               /\ task[i].processed = 0
               /\ task[i].pc = "done" /\ del[i] = "none"
                      => StatusOf(imports, i) = "failed" /\ imports[i].error # "null"

\* A file with two header columns swapped and one valid row has failed.
C11_Witness ==
    \E i \in ImportIds :
        /\ file[i] = FileBadHeader /\ task[i].pc = "done" /\ del[i] = "none"
        /\ StatusOf(imports, i) = "failed" /\ imports[i].error = "ValueError"

\* C12: the exception handler writes status failed and the failure message to the
\* ImportRecord if it exists, and leaves the store as the earlier chunks made it:
\* unless a DELETE was requested, the import owns as many PriceRecords as it inserted.
C12_FailureKeepsRows ==
    [][\A i \in ImportIds :
          task[i].pc = "except" /\ task'[i].pc # "except"
              => /\ stock_prices' = stock_prices
                 /\ task[i].error # "null"
                 /\ i \in DOMAIN imports
                        => /\ StatusOf(imports', i) = "failed"
                           /\ imports'[i].error = task[i].error
                 /\ del[i] = "none"
                        => Cardinality(OwnedBy(stock_prices', i)) = task[i].processed]_vars

\* An ingestion has failed on its second chunk and the row of its first chunk is kept.
C12_Witness ==
    \E i \in ImportIds :
        /\ file[i] = FileBroken /\ task[i].pc = "done" /\ del[i] = "none"
        /\ StatusOf(imports, i) = "failed" /\ imports[i].error = "ParserError"
        /\ imports[i].processed_rows = 1
        /\ Cardinality(OwnedBy(stock_prices, i)) = 1

\* C13: the staged temp file is removed on every exit path: it does not exist
\* once the background task has returned (completed, failed or cancelled), nor
\* once the upload request has ended in an error after staging the file.
C13_TempFileRemoved ==
    \A i \in ImportIds : task[i].pc \in {"done", "rejected"} => ~ tmp_path[i]

\* C14: once an import has completed and invalidated the cache, the cache does not
\* hold the snapshot of the store as it was before the import's records were
\* inserted.
C14_InvalidationBeforeRecompute ==
    \A i \in ImportIds :
        /\ task[i].pc \in {"unlink", "done"} /\ CompletedAndKept(i)
        /\ OwnedBy(stock_prices, i) # {}
        => symbols_cache # Some(aggregate_symbols(stock_prices \ OwnedBy(stock_prices, i)))

\* The call of r returns in this step with a response built from the cache.
ServedFromCache(r) == reader[r].pc = "serve" /\ reader'[r].pc = "idle"

\* C15: no response built from the cache carries the empty symbol list.
C15_NoNegativeCaching ==
    [][\A r \in Readers :
          ServedFromCache(r) => symbols_cache # Some(aggregate_symbols({}))]_vars

\* C16: a snapshot served from the cache reflects the store at a time no more than
\* the TTL before it is served: it was aggregated at most the TTL before the call
\* that serves it read the clock.
C16_ServedWithinTTL ==
    [][\A r \in Readers :
          ServedFromCache(r) /\ symbols_cache # None
              => reader[r].now - snap_hist.held_at <= SYMBOLS_CACHE_TTL]_vars

\* The actions of the trade log are BUY, SELL, BUY, SELL, ...
Alternates(trades) ==
    \A j \in 1 .. Len(trades) : trades[j].action = IF j % 2 = 1 THEN "BUY" ELSE "SELL"

\* C17: the trade log of a signal strategy strictly alternates, starting with BUY,
\* at every bar of every run.
C17_TradesAlternate ==
    bt.pc # "none" /\ bt.strategy \in SignalStrategies => Alternates(bt.trades)

\* An RSI run has finished with a BUY, a SELL and a second BUY.
C17_Witness == bt.pc = "done" /\ bt.strategy = "rsi" /\ Len(bt.trades) >= 3

\* The cash balance before trade j: the capital, or what the previous trade left.
CashBefore(b, j) == IF j = 1 THEN b.initial_capital ELSE b.trades[j - 1].cash_after

\* C18: in a signal strategy every BUY spends the whole cash balance, every SELL
\* sells the shares of the preceding BUY for shares * price, and at every bar at
\* most one of cash and shares is non-zero.
C18_AllInAllOut ==
    bt.pc # "none" /\ bt.strategy \in SignalStrategies
        => /\ bt.cash = RZero \/ bt.shares = RZero
           /\ \A j \in 1 .. Len(bt.trades) :
                  LET t == bt.trades[j]
                  IN  /\ t.action = "BUY"
                             => /\ t.cash_after = RZero
                                /\ t.shares = RDiv(CashBefore(bt, j), t.price)
                      /\ t.action = "SELL"
                             => /\ j > 1
                                /\ t.shares = bt.trades[j - 1].shares
                                /\ t.cash_after = RMul(t.shares, t.price)
                                /\ t.portfolio_value = t.cash_after

\* A Bollinger Bands run has sold at a price other than the one it bought at.
C18_Witness ==
    /\ bt.pc = "done" /\ bt.strategy = "bollinger_bands"
    /\ \E j \in 2 .. Len(bt.trades) :
           bt.trades[j].action = "SELL" /\ bt.trades[j].cash_after # bt.initial_capital

\* C19: Buy & Hold emits exactly one trade, a BUY on the first bar at its price for
\* initial_capital / price shares with cash_after = 0, and the equity at every bar
\* is shares * price.
C19_BuyAndHold ==
    bt.pc = "done" /\ bt.strategy = "buy_and_hold"
        => /\ Len(bt.trades) = 1
           /\ bt.trades[1].action = "BUY" /\ bt.trades[1].date = 1
           /\ bt.trades[1].price = RInt(bt.prices[1])
           /\ bt.trades[1].shares = RDiv(bt.initial_capital, RInt(bt.prices[1]))
           /\ bt.trades[1].cash_after = RZero
           /\ Len(bt.equity) = Len(bt.prices)
           /\ \A k \in 1 .. Len(bt.prices) :
                  bt.equity[k] = RMul(bt.trades[1].shares, RInt(bt.prices[k]))

\* A Buy & Hold run over a series whose last price differs from the first.
C19_Witness ==
    /\ bt.pc = "done" /\ bt.strategy = "buy_and_hold"
    /\ Len(bt.prices) >= 3 /\ bt.prices[Len(bt.prices)] # bt.prices[1]

C21_EquityPerBar ==
    bt.pc \in {"run", "done"}
        => /\ Len(bt.equity) = bt.i
           /\ bt.pc = "done" => Len(bt.equity) = Len(bt.prices)
           /\ bt.i >= 1 => bt.equity[1] = IF bt.strategy = "dca" THEN RInt(bt.params.amount)
                                          ELSE bt.initial_capital

\* A Bollinger Bands run has finished six bars with a BUY among them.
C21_Witness ==
    /\ bt.pc = "done" /\ bt.strategy = "bollinger_bands"
    /\ Len(bt.prices) = MaxBars /\ Len(bt.trades) >= 1

\* C22: over price data that ingestion accepts, no value of the equity curve of
\* any strategy is negative.
C22_EquityNonNegative ==
    bt.pc # "none" => \A k \in 1 .. Len(bt.equity) : ~ RLess(bt.equity[k], RZero)

\* C23: on every path a strategy runs only on a series that passes its minimum-data
\* guard (long_window bars, 3 * rsi_period bars, 2 * bb_window bars).
C23_MinimumDataGuards == bt.pc \in {"run", "done"} => ~ TooFewBars(bt)

\* The strategy params are valid for the strategy: its schema admits them, and
\* short_window < long_window for MA Crossover.
ValidParams(b) ==
    /\ ParamsParse(b)
    /\ b.strategy = "ma_crossover" => b.params.short_window < b.params.long_window

\* C24: a request with invalid strategy params is answered 422 and runs no
\* strategy, on every path and for every strategy.
C24_InvalidParamsRejected ==
    bt.pc # "none" /\ ~ ValidParams(bt)
        => \/ bt.pc \in {"requested", "validated"}
           \/ bt.pc = "rejected" /\ bt.status = 422

\* The dates on which every symbol of the request has a fetched row, ascending.
DateIntersection(req) ==
    sorted({d \in IndexSet(req.frames["A"]) : \A sym \in HoldingSymbols : d \in IndexSet(req.frames[sym])})

\* C25: in a finished portfolio backtest, with or without rebalancing, the equity
\* curve of every holding and of the portfolio is on exactly the dates of the
\* symbols' date intersection, the portfolio equity on each date is the sum of the
\* holdings' equity on that date, and the portfolio total_invested is the sum of
\* the holdings' total_invested.
C25_PortfolioIsSumOfHoldings ==
    bt.pc = "done" /\ "portfolio_equity" \in DOMAIN bt
        => /\ \A sym \in HoldingSymbols :
                  Index(bt.holding_equities[sym]) = DateIntersection(bt.request)
           /\ Index(bt.portfolio_equity) = DateIntersection(bt.request)
           /\ \A k \in DOMAIN bt.portfolio_equity :
                  bt.portfolio_equity[k].value
                      = RAdd(bt.holding_equities["A"][k].value, bt.holding_equities["B"][k].value)
           /\ bt.portfolio_total_invested
                  = RAdd(bt.holding_total_invested["A"], bt.holding_total_invested["B"])

\* A rebalanced portfolio has finished two periods over frames that start and end
\* on different days, with equity that moved.
C25_Witness ==
    /\ bt.pc = "done" /\ "portfolio_equity" \in DOMAIN bt
    /\ bt.request.rebalance /\ Len(bt.boundaries) = 3
    /\ IndexSet(bt.request.frames["A"]) # IndexSet(bt.request.frames["B"])
    /\ \E k \in DOMAIN bt.portfolio_equity :
           bt.portfolio_equity[k].value # RInt(bt.request.initial_capital)

\* C26: for a non-DCA strategy the total_invested of every portfolio holding is
\* initial_capital * weight and that of the portfolio is initial_capital, with or
\* without rebalancing.
C26_TotalInvestedIsCapital ==
    bt.pc = "done" /\ "portfolio_equity" \in DOMAIN bt /\ bt.request.cfg.strategy # "dca"
        => /\ \A h \in DOMAIN Holdings :
                  bt.holding_total_invested[Holdings[h].symbol]
                      = RMul(RInt(bt.request.initial_capital), Holdings[h].weight)
           /\ bt.portfolio_total_invested = RInt(bt.request.initial_capital)

\* The run of the strategy of b over the first t bars of its series alone.
RunOnPrefix(b, t) ==
    run_strategy([b EXCEPT !.pc = "run", !.prices = SubSeq(b.prices, 1, t), !.i = 0,
                           !.cash = IF b.strategy \in SignalStrategies THEN b.initial_capital
                                    ELSE RZero,
                           !.shares = RZero, !.in_market = FALSE, !.prev_above = None,
                           !.last_invest_date = None, !.total_injected = RZero,
                           !.trades = << >>, !.equity = << >>])

TradesUpTo(trades, t) == SelectSeq(trades, LAMBDA tr : tr.date <= t)

\* C27: no look-ahead. The trades and the equity of the bars 1 .. t of a run are
\* those of the run over the first t bars alone, so two series that agree up to
\* bar t (both have the same first t bars) give the same trades and equity up
\* to t; and every trade is priced at the adj_close of its bar.
C27_NoLookAhead ==
    bt.pc \in {"run", "done"}
        => /\ \A t \in 1 .. bt.i :
                  \E r \in {RunOnPrefix(bt, t)} :
                      /\ TradesUpTo(bt.trades, t) = r.trades
                      /\ SubSeq(bt.equity, 1, t) = r.equity
           /\ \A j \in DOMAIN bt.trades :
                  bt.trades[j].price = RInt(bt.prices[bt.trades[j].date])

\* An RSI run has traded and has bars of its series still to come.
C27_Witness ==
    /\ bt.pc = "run" /\ bt.strategy = "rsi" /\ Len(bt.trades) >= 1
    /\ bt.i >= 4 /\ bt.i < Len(bt.prices) /\ bt.prices[bt.i + 1] # bt.prices[bt.i]

\* C28: an MA Crossover bar adds a trade only if both averages are defined on it
\* and on the bar before and `above` differs between the two: a BUY with above
\* now true and cash > 0, a SELL with above now false and shares > 0. No trade is
\* dated on the first bar with both averages, and a constant series gives no trade.
C28_TradesOnlyOnCrossovers ==
    /\ [](bt.pc \in {"run", "done"} /\ bt.strategy = "ma_crossover"
            => /\ \A j \in DOMAIN bt.trades :
                      bt.trades[j].date
                          > Max(bt.params.short_window, bt.params.long_window)
               /\ (\A k \in DOMAIN bt.prices : bt.prices[k] = bt.prices[1])
                      => bt.trades = << >>)
    /\ [][bt.pc = "run" /\ bt.strategy = "ma_crossover" /\ bt'.trades # bt.trades
            => LET k == bt'.i
                   trade == bt'.trades[Len(bt'.trades)]
               IN  /\ Len(bt'.trades) = Len(bt.trades) + 1 /\ trade.date = k
                   /\ k >= 2 /\ ma_defined(bt, k) /\ ma_defined(bt, k - 1)
                   /\ ma_above(bt, k) # ma_above(bt, k - 1)
                   /\ trade.action = "BUY" => ma_above(bt, k) /\ RLess(RZero, bt.cash)
                   /\ trade.action = "SELL" => ~ ma_above(bt, k) /\ RLess(RZero, bt.shares)]_vars

\* An MA Crossover run has finished with a BUY and a SELL.
C28_Witness ==
    /\ bt.pc = "done" /\ bt.strategy = "ma_crossover" /\ Len(bt.trades) >= 2
    /\ bt.trades[2].action = "SELL"

\* The indexes of the BUYs among the first p trades, in order.
BuysUpTo(trades, p) == SelectSeq([k \in 1 .. p |-> k], LAMBDA k : trades[k].action = "BUY")

\* The closed pairs <<BUY index, SELL index>> among the first p trades, pairing
\* each SELL that finds an unconsumed BUY before it with the oldest such BUY.
RECURSIVE ClosedPairs(_, _)
ClosedPairs(trades, p) ==
    IF p = 0 THEN << >>
    ELSE CHOOSE pairs \in
             {IF trades[p].action = "SELL" /\ Len(BuysUpTo(trades, p)) > Len(before)
              THEN Append(before, <<BuysUpTo(trades, p)[Len(before) + 1], p>>)
              ELSE before
              : before \in {ClosedPairs(trades, p - 1)}} : TRUE

PairPnl(trades, pair) ==
    RMul(RSub(trades[pair[2]].price, trades[pair[1]].price),
         RMin(trades[pair[2]].shares, trades[pair[1]].shares))

\* The sum of f over the pairs k .. last: the pnl of the winning pairs (sign 1) or
\* the absolute pnl of the others (sign -1).
RECURSIVE GrossPnl(_, _, _, _)
GrossPnl(trades, pairs, k, sign) ==
    IF k > Len(pairs) THEN RZero
    ELSE LET pnl == PairPnl(trades, pairs[k])
             win == RLess(RZero, pnl)
         IN  RAdd(IF sign = 1 /\ win THEN pnl
                  ELSE IF sign = -1 /\ ~ win THEN RSub(RZero, pnl)
                  ELSE RZero,
                  GrossPnl(trades, pairs, k + 1, sign))

\* C29: the metrics pair the trades FIFO, ignoring a SELL with no unconsumed BUY:
\* win_rate is the share of closed pairs with pnl > 0 and profit_factor is gross
\* profit / gross loss; both are null without a closed pair, profit_factor is null
\* when the gross loss is not above 1e-9, and win_rate lies within [0, 1].
C29_FifoPairing ==
    bt.pc = "done" /\ "win_rate" \in DOMAIN bt
        => \E pairs \in {ClosedPairs(bt.trades, Len(bt.trades))} :
               LET wins == Cardinality({k \in DOMAIN pairs :
                                           RLess(RZero, PairPnl(bt.trades, pairs[k]))})
                   gross_profit == GrossPnl(bt.trades, pairs, 1, 1)
                   gross_loss == GrossPnl(bt.trades, pairs, 1, -1)
               IN  /\ bt.total_closed = Len(pairs)
                   /\ bt.win_rate = IF pairs = << >> THEN None
                                    ELSE Some(Rat(wins, Len(pairs)))
                   /\ bt.profit_factor = IF pairs = << >> \/ ~ AboveEpsilon(gross_loss) THEN None
                                         ELSE Some(RDiv(gross_profit, gross_loss))
                   /\ bt.win_rate # None
                          => ~ RLess(bt.win_rate[1], RZero) /\ ~ RLess(RInt(1), bt.win_rate[1])

\* A log of two BUYs and one SELL that wins against the first BUY: the second
\* BUY, at the higher price, stays open.
C29_Witness ==
    /\ bt.pc = "done" /\ "win_rate" \in DOMAIN bt
    /\ bt.total_closed = 1 /\ bt.win_rate = Some(RInt(1)) /\ bt.profit_factor = None
    /\ Len(bt.buy_price_stack) = 1 /\ bt.buy_price_stack[1].price = RInt(2)

\* The in-market flag after date d: some BUY date at or before d has no SELL date
\* from it up to d.
Flag(trades, d) ==
    \E j \in DOMAIN trades :
        /\ trades[j].action = "BUY" /\ trades[j].date <= d
        /\ \A s \in DOMAIN trades :
               trades[s].action = "SELL" => ~ (trades[j].date <= trades[s].date /\ trades[s].date <= d)

\* C30: time_in_market is the fraction of the equity dates on which the flag is
\* true, the flag being set on a BUY date and then cleared on a SELL date; it is
\* 0 without a BUY, 1 for a single BUY on the first date and no SELL, and within
\* [0, 1].
C30_TimeInMarket ==
    bt.pc \in {"pairs", "done"} /\ "time_in_market" \in DOMAIN bt
        => LET tim == bt.time_in_market[1]
               dates == 1 .. bt.total_days
               buys == {j \in DOMAIN bt.trades : bt.trades[j].action = "BUY"}
               sells == {j \in DOMAIN bt.trades : bt.trades[j].action = "SELL"}
           IN  /\ tim = Rat(Cardinality({d \in dates : Flag(bt.trades, d)}), bt.total_days)
               /\ buys = {} => tim = RZero
               /\ Cardinality(buys) = 1 /\ sells = {} /\ (\A j \in buys : bt.trades[j].date = 1)
                      => tim = RInt(1)
               /\ ~ RLess(tim, RZero) /\ ~ RLess(RInt(1), tim)

\* A BUY and a SELL share the second of three dates, after a BUY on the first.
C30_Witness ==
    /\ bt.pc = "done" /\ "time_in_market" \in DOMAIN bt /\ bt.total_days = MaxEquityDates
    /\ bt.time_in_market = Some(Rat(1, MaxEquityDates))
    /\ \E j, s \in DOMAIN bt.trades :
           /\ bt.trades[j].action = "BUY" /\ bt.trades[s].action = "SELL"
           /\ bt.trades[j].date = 2 /\ bt.trades[s].date = 2

\* C31: under fair scheduling, once DELETE is accepted for an import, eventually
\* and from then on neither its ImportRecord nor any PriceRecord with its
\* import_id exists, whatever the ingestion was doing.
C31_DeleteEventuallyLeavesNothing ==
    \A i \in ImportIds :
        [](del[i] # "none"
             => <>[](i \notin DOMAIN imports /\ OwnedBy(stock_prices, i) = {}))

\* The PriceRecords with import_id i that a step adds to the store.
Added(i) == OwnedBy(stock_prices', i) \ stock_prices

\* C32: within one ingestion task the records of a chunk are inserted while that
\* chunk is the current one and the chunks are taken in file order; the persisted
\* processed_rows never decreases, and after chunk k it is the number of
\* PriceRecords the task actually inserted in chunks 1..k.
C32_ChunksInOrder ==
    [][\A i \in ImportIds :
          LET docs == _transform_chunk(Chunk(file[i], task[i].chunk_count), i)
          IN  /\ Added(i) # {}
                     => /\ task[i].pc = "insert"
                        /\ \A d \in Added(i) :
                               \E k \in DOMAIN docs : docs[k] = d /\ k = task[i].pos + 1
                        /\ task'[i].chunk_count = task[i].chunk_count
              /\ task'[i].processed = task[i].processed + Cardinality(Added(i))
              /\ task'[i].chunk_count \in {task[i].chunk_count, task[i].chunk_count + 1}
              /\ task'[i].chunk_count = task[i].chunk_count + 1 /\ i \in DOMAIN imports'
                     => imports'[i].processed_rows = task[i].processed
              /\ i \in DOMAIN imports /\ i \in DOMAIN imports'
                     => imports'[i].processed_rows >= imports[i].processed_rows
      ]_vars

\* Two chunks are behind the task, one of their rows was skipped as a duplicate,
\* and the persisted count is the number of rows that went in.
C32_Witness ==
    \E i \in ImportIds :
        /\ task[i].chunk_count >= 2 /\ i \in DOMAIN imports
        /\ imports[i].processed_rows = task[i].processed
        /\ task[i].processed >= 1
        /\ task[i].processed < Cardinality(FileDocuments(file[i], i))
        /\ Cardinality(OwnedBy(stock_prices, i)) = task[i].processed

\* C33: DCA injects on the first bar and then on exactly the bars dated at least
\* spacing days (7 / 30 / 91) after the last injection; on the dense daily series
\* the injections fall on bars 0, spacing, 2 * spacing, ... (days 1, 1 + spacing,
\* ...) and after n bars there are floor((n - 1) / spacing) + 1 of them.
C33_DcaInjectionDays ==
    bt.pc \in {"run", "done"} /\ "strategy" \in DOMAIN bt /\ bt.strategy = "dca" /\ bt.i >= 1
        => LET spacing == _dca_interval_days(bt.params.interval)
               n == bt.i
               day(j) == bt.trades[j].date
           IN  /\ \A j \in DOMAIN bt.trades : bt.trades[j].action = "BUY"
               /\ day(1) = 1
               /\ \A j \in 2 .. Len(bt.trades) :
                      /\ day(j) - day(j - 1) >= spacing
                      /\ \A k \in day(j - 1) + 1 .. day(j) - 1 : k - day(j - 1) < spacing
               /\ \A k \in day(Len(bt.trades)) + 1 .. n : k - day(Len(bt.trades)) < spacing
               /\ {day(j) : j \in DOMAIN bt.trades} = {k \in 1 .. n : (k - 1) % spacing = 0}
               /\ Len(bt.trades) = ((n - 1) \div spacing) + 1

\* A weekly run has made its second injection, a week after the first.
C33_Witness ==
    /\ bt.pc \in {"run", "done"} /\ "strategy" \in DOMAIN bt /\ bt.strategy = "dca"
    /\ bt.params.interval = "weekly"
    /\ Len(bt.trades) = 2 /\ bt.trades[2].date = 1 + _dca_interval_days("weekly")

\* The weight of a holding.
WeightOf(sym) == Holdings[CHOOSE h \in DOMAIN Holdings : Holdings[h].symbol = sym].weight

\* The dates of a curve, in order.
DatesOf(series) == [k \in DOMAIN series |-> series[k].date]

\* The sum over all holdings of the last value of their curves so far.
PooledEndingEquity(b) ==
    sum_values([sym \in HoldingSymbols |->
                   b.holding_equities[sym][Len(b.holding_equities[sym])].value], 1)

\* C34: with rebalancing the sub-periods partition the intersection dates in
\* order, the first starting at the first intersection date, and a holding starts
\* a sub-period with initial_capital * weight in the first one and otherwise with
\* (the sum of all holdings' ending equity of the sub-period before) * weight.
C34_RebalancingPeriods ==
    /\ [](bt.pc \in {"periods", "results", "done"} /\ "request" \in DOMAIN bt /\ bt.request.rebalance
            => /\ bt.boundaries[1] = bt.common_index[1]
               /\ \A sym \in HoldingSymbols :
                      /\ DatesOf(bt.holding_equities[sym])
                             = SubSeq(bt.common_index, 1, Len(bt.holding_equities[sym]))
                      /\ bt.pc \in {"results", "done"}
                             => Len(bt.holding_equities[sym]) = Len(bt.common_index))
    /\ [][bt.pc = "periods"
            => \A sym \in HoldingSymbols :
                   LET n0 == Len(bt.holding_equities[sym])
                       n1 == Len(bt'.holding_equities[sym])
                       start == IF n0 = 0
                                THEN RMul(RInt(bt.request.initial_capital), WeightOf(sym))
                                ELSE RMul(PooledEndingEquity(bt), WeightOf(sym))
                   IN  /\ n1 > n0
                       /\ \A h \in HoldingSymbols : Len(bt.holding_equities[h]) = n0
                       /\ SubSeq(bt'.holding_equities[sym], n0 + 1, n1)
                              = run_one_holding_result(bt.request.cfg,
                                                       SubSeq(bt.all_prices[sym], n0 + 1, n1),
                                                       start).eq]_vars

\* A second sub-period has run with a pooled capital that differs from what the
\* holding itself had at the end of the first.
C34_Witness ==
    /\ bt.pc = "results" /\ "request" \in DOMAIN bt /\ bt.request.rebalance
    /\ bt.period_idx = 3
    /\ bt.request.cfg.strategy # "dca"
    /\ \E d \in 1 .. Len(bt.common_index) - 1 :
           /\ bt.boundaries[2] = bt.common_index[d + 1]
           /\ bt.holding_equities["A"][d + 1].value
                  = RMul(RAdd(bt.holding_equities["A"][d].value,
                              bt.holding_equities["B"][d].value), WeightOf("A"))
           /\ bt.holding_equities["A"][d + 1].value # bt.holding_equities["A"][d].value

\* C39: with rebalancing, Buy & Hold and weights summing to 1, the portfolio
\* equity on the first date of every sub-period after the first equals the
\* portfolio equity on the last date of the sub-period before it.
C39_NoJumpAtRebalance ==
    (/\ bt.pc = "done" /\ "request" \in DOMAIN bt /\ bt.request.rebalance
     /\ bt.request.cfg.strategy = "buy_and_hold"
     /\ sum_values([sym \in HoldingSymbols |-> WeightOf(sym)], 1) = RInt(1))
        => \A p \in 2 .. Len(bt.boundaries) - 1 :
               ValueAt(bt.portfolio_equity, bt.boundaries[p])
                   = ValueAt(bt.portfolio_equity, bt.boundaries[p] - 1)

\* Both prices change across the boundary, and the portfolio had moved away from
\* the initial capital by the end of the first sub-period.
C39_Witness ==
    /\ bt.pc = "done" /\ "request" \in DOMAIN bt /\ bt.request.rebalance
    /\ bt.request.cfg.strategy = "buy_and_hold"
    /\ Len(bt.boundaries) = 3
    /\ \A sym \in HoldingSymbols :
           \E k \in 2 .. Len(bt.all_prices[sym]) :
               /\ bt.all_prices[sym][k].date = bt.boundaries[2]
               /\ bt.all_prices[sym][k].adj_close # bt.all_prices[sym][k - 1].adj_close
    /\ ValueAt(bt.portfolio_equity, bt.boundaries[2]) # RInt(bt.request.initial_capital)

\* The datetimes of the records the query of _fetch_prices returns.
Fetched(b) == {t \in DOMAIN b.store : t >= b.date_from /\ t <= b.date_to}

\* The frame has one row for every day from the first to the last fetched record.
DenseDays(b) ==
    LET first == normalize(CHOOSE t \in Fetched(b) : \A u \in Fetched(b) : t <= u)
        last == normalize(CHOOSE t \in Fetched(b) : \A u \in Fetched(b) : t >= u)
    IN  /\ Len(b.df) = ((last - first) \div 2) + 1
        /\ \A k \in DOMAIN b.df : b.df[k].date = first + 2 * (k - 1)

\* The first fetched record of a day.
FirstOf(b, day) ==
    CHOOSE t \in Fetched(b) : normalize(t) = day /\ \A u \in Fetched(b) : normalize(u) = day => t <= u

\* C35 as stated: the frame is dense from the first to the last fetched record
\* date, a day with records has the adj_close of its first record, and a day
\* without a record carries the adj_close of the latest earlier record.
C35_DailyFrame ==
    bt.pc = "fetched" /\ "store" \in DOMAIN bt /\ Fetched(bt) # {}
        => /\ DenseDays(bt)
           /\ \A k \in DOMAIN bt.df :
                  LET day == bt.df[k].date
                      earlier == {t \in Fetched(bt) : t < day}
                  IN  IF \E t \in Fetched(bt) : normalize(t) = day
                      THEN bt.df[k].adj_close = bt.store[FirstOf(bt, day)]
                      ELSE bt.df[k].adj_close
                               = bt.store[CHOOSE t \in earlier : \A u \in earlier : t >= u]

\* C35, amended: a day without a record carries the adj_close of the first
\* record of the latest earlier day that has one.
C35_DailyFrameOfKeptRecords ==
    bt.pc = "fetched" /\ "store" \in DOMAIN bt /\ Fetched(bt) # {}
        => /\ DenseDays(bt)
           /\ \A k \in DOMAIN bt.df :
                  LET day == bt.df[k].date
                      earlier == {normalize(t) : t \in {u \in Fetched(bt) : u < day}}
                  IN  IF \E t \in Fetched(bt) : normalize(t) = day
                      THEN bt.df[k].adj_close = bt.store[FirstOf(bt, day)]
                      ELSE bt.df[k].adj_close
                               = bt.store[FirstOf(bt, CHOOSE d \in earlier : \A e \in earlier : d >= e)]

\* A day has two records with different prices, the next day has none and a
\* later day has a record with yet another price than the one carried.
C35_Witness ==
    /\ bt.pc = "fetched" /\ "store" \in DOMAIN bt
    /\ \E k \in 2 .. Len(bt.df) - 1 :
           /\ ~ \E t \in Fetched(bt) : normalize(t) = bt.df[k].date
           /\ {bt.df[k].date - 2, bt.df[k].date - 1} \subseteq Fetched(bt)
           /\ bt.store[bt.df[k].date - 2] # bt.store[bt.df[k].date - 1]
           /\ bt.df[k + 1].adj_close # bt.df[k].adj_close

\* C36: under fair scheduling every scheduled ingestion task terminates, and once
\* process_csv has returned the ImportRecord is completed, failed, deleting or
\* absent, never pending or processing.
C36_IngestionTerminates ==
    /\ \A i \in ImportIds : (task[i].pc = "scheduled") ~> (task[i].pc = "done")
    /\ [](\A i \in ImportIds :
              task[i].pc \in {"unlink", "done"}
                  => StatusOf(imports, i) \in {"completed", "failed", "deleting", "absent"})

\* A task has terminated on a file whose second chunk cannot be read, after a
\* first chunk that went in, and its record is failed.
C36_Witness ==
    \E i \in ImportIds :
        /\ task[i].pc = "done" /\ task[i].error = "ParserError" /\ task[i].processed > 0
        /\ StatusOf(imports, i) = "failed"

\* C37: an ImportRecord that has been removed is never re-created: a step of the
\* ingestion of an import whose record is gone leaves the imports collection as
\* it is.
C37_RemovedNeverRecreated ==
    [][\A i \in ImportIds :
          task[i].pc \notin {"none", "rejected"} /\ i \notin DOMAIN imports
              => /\ i \notin DOMAIN imports'
                 /\ task'[i] # task[i] => imports' = imports]_vars

\* The ingestion went on while delete_import removed the record, wrote its
\* failure, and no record exists.
C37_Witness ==
    \E i \in ImportIds :
        /\ del[i] = "done" /\ i \notin DOMAIN imports
        /\ task[i].pc = "done" /\ task[i].error = "ParserError"
        /\ OwnedBy(stock_prices, i) # {}

\* C38: a PriceRecord is removed only with its owning import: by delete_import
\* of its import, by the cancellation cleanup of its import's process_csv, or by
\* startup recovery when its import is stuck or missing; a step of none of
\* these on a completed or failed import leaves its ImportRecord and its
\* PriceRecords as they are.
C38_PricesRemovedOnlyWithOwner ==
    [][/\ \A p \in stock_prices \ stock_prices' :
              \/ del[p.import_id] = "marked" /\ del'[p.import_id] = "prices_deleted"
              \/ task[p.import_id].pc = "cancel" /\ task'[p.import_id].pc = "invalidate"
              \/ /\ recovery.pc = "delete_stuck_prices"
                 /\ StatusOf(imports, p.import_id) \in StuckStatuses
              \/ /\ recovery.pc = "delete_orphans"
                 /\ p.import_id \notin DOMAIN imports
       /\ \A j \in ImportIds :
              (/\ StatusOf(imports, j) \in {"completed", "failed"}
               /\ del'[j] = del[j] /\ task'[j] = task[j])
                  => /\ j \in DOMAIN imports' /\ imports'[j] = imports[j]
                     /\ OwnedBy(stock_prices', j) = OwnedBy(stock_prices, j)]_vars

\* Recovery removed the documents of a stuck or missing import, import 1 was
\* then uploaded, had rows inserted and was deleted with them, and the
\* completed import 2 of the last run still has its record and its documents.
C38_Witness ==
    /\ recovery.pc = "done" /\ recovery.stuck_ids \cup recovery.orphaned_ids # {}
    /\ task[1].processed >= 1 /\ del[1] = "done"
    /\ OwnedBy(stock_prices, 1) = {} /\ 1 \notin DOMAIN imports
    /\ StatusOf(imports, 2) = "completed" /\ OwnedBy(stock_prices, 2) # {}

====
